---- MODULE Spec2Model ----
(***************************************************************************)
(* Auto-Claude: the provider-agnostic agent engines (core/engine.py) and   *)
(* the built-in tool set (core/tools/builtin.py).                          *)
(*                                                                         *)
(* Python str values that carry data (file contents, tool results, model   *)
(* text, JSON argument strings) are sequences of tokens, so that           *)
(* concatenation, slicing, search and parsing are computed.  Tool names,   *)
(* call identifiers and roles are TLA+ strings.  Paths are sequences of    *)
(* components; a path is absolute when its first component is "/".         *)
(***************************************************************************)
EXTENDS Integers, Sequences, FiniteSets, TLC

VARIABLES
    engine,           \* which engine class was constructed
    pc,               \* position of the receive_response generator
    system_prompt,    \* options.system_prompt / self.system_prompt
    max_turns,        \* options.max_turns
    history,          \* OpenAIAgentEngine.history
    chat_history,     \* GeminiAgentEngine.chat_session.history
    tool_calls,       \* calls collected in the current pass
    current_content,  \* OpenAI: text accumulated in the current pass
    idx,              \* position of the next call to dispatch / result to yield
    pending,          \* GeminiAgentEngine._pending_tool_results
    current_response, \* GeminiAgentEngine._current_response: "none", "open", "exhausted"
    events,           \* what the current receive_response has done, in order
    received,         \* tool-call deltas the stream delivered in the current pass
    chunks,           \* chunks delivered by the backend so far
    queries,          \* query() calls so far
    fs,               \* the file system the tools act on
    syslog,           \* security-gate calls and spawned processes, in order
    last,             \* SpecTools: what the last tool call returned
    template,         \* os.environ AUTO_CLAUDE_CUSTOM_CLI_TEMPLATE, or the default
    spec_dir,         \* options.spec_dir
    session_id,       \* CustomCliAgentEngine.session_id
    marker,           \* the file <spec_dir>/.droid_session_id
    cli_prompt,       \* CustomCliAgentEngine.prompt
    cli_command,      \* receive_response: template, cmd_str, args, is_streaming
    process,          \* receive_response: the child process and its pipes
    scope,            \* the caller's `async with engine:` block
    cleanups,         \* calls of cleanup() so far
    genai_config,     \* the api_key the google.generativeai module is configured with
    instances,        \* two engine instances living in one process
    session_files,    \* the file .droid_session_id of each spec directory
    claude,           \* ClaudeAgentEngine: the calls made on it and what it yielded
    sdk_client,       \* ClaudeAgentEngine.client: the calls it received, what it yielded
    pipes             \* CustomCliAgentEngine: the child program and its three pipes

cliVars == <<template, spec_dir, session_id, marker, cli_prompt, cli_command, process,
             scope, cleanups>>

sdkVars == <<claude, sdk_client, pipes>>

pairVars == <<genai_config, instances, session_files, sdkVars>>

vars == <<engine, pc, system_prompt, max_turns, history, chat_history, tool_calls,
          current_content, idx, pending, current_response, events, received,
          chunks, queries, fs, syslog, last, cliVars, pairVars>>

engineVars == <<engine, pc, system_prompt, max_turns, history, chat_history,
                tool_calls, current_content, idx, pending, current_response,
                events, received, chunks, queries>>

(***************************************************************************)
(* Bounds of the model.                                                    *)
(***************************************************************************)
MaxChunks == 3
MaxQueries == 2
MaxFileLen == 3

(***************************************************************************)
(* Python helpers.                                                         *)
(***************************************************************************)
NoneVal == <<"None">>

EmptyArgs == [k \in {} |-> <<>>]

Min(a, b) == IF a < b THEN a ELSE b

Max(a, b) == IF a > b THEN a ELSE b

\* seq[start:end] with Python's treatment of negative and out-of-range bounds
PySlice(s, start, end) ==
    LET n  == Len(s)
        lo == IF start < 0 THEN Max(n + start, 0) ELSE Min(start, n)
        hi == IF end < 0 THEN Max(n + end, 0) ELSE Min(end, n)
    IN  IF lo >= hi THEN <<>> ELSE SubSeq(s, lo + 1, hi)

RECURSIVE Flatten(_)
Flatten(ss) == IF ss = <<>> THEN <<>> ELSE Head(ss) \o Flatten(Tail(ss))

IsPrefix(p, s) == Len(p) <= Len(s) /\ SubSeq(s, 1, Len(p)) = p

\* target in content
Contains(s, t) == \E i \in 0..Len(s) : IsPrefix(t, SubSeq(s, i + 1, Len(s)))

\* content.replace(target, replacement): every non-overlapping occurrence, left to right
RECURSIVE PyReplace(_, _, _)
PyReplace(s, t, r) ==
    IF t = <<>>
    THEN r \o Flatten([i \in 1..Len(s) |-> <<s[i]>> \o r])
    ELSE IF s = <<>> THEN <<>>
    ELSE IF IsPrefix(t, s) THEN r \o PyReplace(SubSeq(s, Len(t) + 1, Len(s)), t, r)
    ELSE <<Head(s)>> \o PyReplace(Tail(s), t, r)

\* open(path, 'r'): universal newlines turn "\r\n" and a lone "\r" into "\n"
RECURSIVE TranslateNewlines(_)
TranslateNewlines(s) ==
    IF s = <<>> THEN <<>>
    ELSE IF Head(s) = "\r"
    THEN IF Len(s) >= 2 /\ s[2] = "\n"
         THEN <<"\n">> \o TranslateNewlines(Tail(Tail(s)))
         ELSE <<"\n">> \o TranslateNewlines(Tail(s))
    ELSE <<Head(s)>> \o TranslateNewlines(Tail(s))

\* f.readlines(): the lines of the text, each keeping its "\n"
RECURSIVE ReadLines(_, _)
ReadLines(s, cur) ==
    IF s = <<>> THEN (IF cur = <<>> THEN <<>> ELSE <<cur>>)
    ELSE IF Head(s) = "\n" THEN <<cur \o <<"\n">>>> \o ReadLines(Tail(s), <<>>)
    ELSE ReadLines(Tail(s), cur \o <<Head(s)>>)

(***************************************************************************)
(* The world of the tools: a file system and the process working directory.*)
(***************************************************************************)
ProcCwd == <<"/", "w">>

Missing == [kind |-> "missing", data |-> <<>>]

TextFile(data) == [kind |-> "file", data |-> data]

IsAbsolute(p) == p # <<>> /\ p[1] = "/"

\* the file a path names: a relative path is relative to the process directory
Resolve(p) == IF IsAbsolute(p) THEN p ELSE ProcCwd \o p

Stat(f, p) == IF Resolve(p) \in DOMAIN f THEN f[Resolve(p)] ELSE Missing

Exists(f, p) == Stat(f, p).kind # "missing"

\* regular files: text, undecodable bytes, or no permission to open
IsFile(f, p) == Stat(f, p).kind \in {"file", "binary", "locked"}

\* some ancestor of p is a regular file, so the parent cannot be created
ParentBlocked(f, p) ==
    \E n \in 1..(Len(Resolve(p)) - 1) : IsFile(f, SubSeq(Resolve(p), 1, n))

Put(f, p, x) == [q \in DOMAIN f \cup {Resolve(p)} |-> IF q = Resolve(p) THEN x ELSE f[q]]

\* what a tool call gives its caller: a returned value, or a propagated exception
Returned(type, value, f, log) ==
    [raised |-> "", type |-> type, value |-> value, fs |-> f, log |-> log]

Raised(exc, f, log) ==
    [raised |-> exc, type |-> "none", value |-> <<>>, fs |-> f, log |-> log]

IsError(r) == r.raised = "" /\ r.type = "str" /\ r.value # <<>> /\ r.value[1] \in
    {"Error: File not found: ", "Error reading file: ", "Error writing file: ",
     "Error: Target content not found in ", "Error editing file: ",
     "Error: Command blocked by security policy: ",
     "Error: Command timed out after 300 seconds.", "Error executing command: ",
     "Error: Tool ", "Error: MCP Server "}

(***************************************************************************)
(* core/tools/builtin.py                                                   *)
(***************************************************************************)
\* an optional int is <<>> (None) or <<n>>
read_file(f, file_path, start_line, end_line) ==
    IF ~Exists(f, file_path)
    THEN Returned("str", <<"Error: File not found: ">> \o file_path, f, <<>>)
    ELSE IF Stat(f, file_path).kind # "file"
    THEN Returned("str", <<"Error reading file: ", Stat(f, file_path).kind>>, f, <<>>)
    ELSE LET lines == ReadLines(TranslateNewlines(Stat(f, file_path).data), <<>>)
             start == IF start_line # <<>> /\ start_line[1] # 0
                      THEN start_line[1] - 1 ELSE 0
             end   == IF end_line # <<>> /\ end_line[1] # 0
                      THEN end_line[1] ELSE Len(lines)
         IN  IF start_line # <<>> \/ end_line # <<>>
             THEN Returned("str", Flatten(PySlice(lines, start, end)), f, <<>>)
             ELSE Returned("str", Flatten(lines), f, <<>>)

write_file(f, file_path, content) ==
    IF ParentBlocked(f, file_path) \/ Stat(f, file_path).kind \in {"dir", "locked"}
    THEN Returned("str", <<"Error writing file: ", Stat(f, file_path).kind>>, f, <<>>)
    ELSE Returned("str", <<"Successfully wrote to ">> \o file_path,
                  Put(f, file_path, TextFile(content)), <<>>)

edit_file(f, file_path, target_content, replacement_content) ==
    IF ~Exists(f, file_path)
    THEN Returned("str", <<"Error: File not found: ">> \o file_path, f, <<>>)
    ELSE IF Stat(f, file_path).kind # "file"
    THEN Returned("str", <<"Error editing file: ", Stat(f, file_path).kind>>, f, <<>>)
    ELSE LET content == TranslateNewlines(Stat(f, file_path).data)
         IN  IF ~Contains(content, target_content)
             THEN Returned("str", <<"Error: Target content not found in ">> \o file_path,
                           f, <<>>)
             ELSE Returned("str", <<"Successfully edited ">> \o file_path,
                           Put(f, file_path,
                               TextFile(PyReplace(content, target_content,
                                                  replacement_content))), <<>>)

\* fnmatch of a file name against the patterns the model uses
Fnmatch(name, pattern) == pattern = "*" \/ name = pattern

RECURSIVE SetToSeq(_)
SetToSeq(S) == IF S = {} THEN <<>>
               ELSE LET x == CHOOSE y \in S : TRUE IN <<x>> \o SetToSeq(S \ {x})

\* root.rglob(pattern), files only: the paths under root whose name matches
RGlob(f, pattern, root_dir) ==
    LET root == Resolve(root_dir)
    IN  SetToSeq({p \in DOMAIN f : /\ Len(p) > Len(root)
                                   /\ IsPrefix(root, p)
                                   /\ IsFile(f, p)
                                   /\ Fnmatch(p[Len(p)], pattern)})

RelativeTo(p, root_dir) == SubSeq(p, Len(Resolve(root_dir)) + 1, Len(p))

\* str(list): the repr of a list of path strings
PyStrList(ps) == <<"[">> \o Flatten([i \in 1..Len(ps) |-> ps[i] \o <<",">>]) \o <<"]">>

glob_files(f, pattern, root_dir) ==
    IF pattern = ""
    THEN Raised("ValueError", f, <<>>)
    ELSE LET ms == RGlob(f, pattern, root_dir)
         IN  Returned("list",
                      PyStrList([i \in 1..Len(ms) |-> RelativeTo(ms[i], root_dir)]),
                      f, <<>>)

\* re.compile(query): the model's queries are literals, "(" opens a group never closed
ReCompileFails(query) == \E i \in 1..Len(query) : query[i] = "("

Lower(c) == CASE c = "A" -> "a" [] c = "B" -> "b" [] OTHER -> c

LowerAll(s) == [i \in 1..Len(s) |-> Lower(s[i])]

\* regex.search(line) with re.IGNORECASE, for a literal query
ReSearch(query, line) == Contains(LowerAll(line), LowerAll(query))

IsSpace(c) == c \in {" ", "\n", "\t", "\r"}

RECURSIVE LStrip(_)
LStrip(s) == IF s # <<>> /\ IsSpace(Head(s)) THEN LStrip(Tail(s)) ELSE s

RECURSIVE RStrip(_)
RStrip(s) == IF s # <<>> /\ IsSpace(s[Len(s)]) THEN RStrip(SubSeq(s, 1, Len(s) - 1)) ELSE s

Strip(s) == RStrip(LStrip(s))

\* the result entries of one file.  A file that cannot be opened gives none.  The
\* entries are appended line by line, and the decoder works on one buffer of the
\* file at a time: the data of a "binary" file are the lines of the buffers before
\* the one that cannot be decoded, and their entries stay in the results
GrepFile(f, query, p, root_dir) ==
    IF f[p].kind \notin {"file", "binary"} THEN <<>>
    ELSE LET lines == ReadLines(TranslateNewlines(f[p].data), <<>>)
             hits  == SelectSeq([i \in 1..Len(lines) |-> <<i, lines[i]>>],
                                LAMBDA x : ReSearch(query, x[2]))
         IN  [k \in 1..Len(hits) |->
                 RelativeTo(p, root_dir) \o <<":", ToString(hits[k][1]), ": ">>
                     \o Strip(hits[k][2])]

\* "\n".join(results)
RECURSIVE JoinLines(_)
JoinLines(rs) == IF rs = <<>> THEN <<>>
                 ELSE IF Len(rs) = 1 THEN rs[1]
                 ELSE rs[1] \o <<"\n">> \o JoinLines(Tail(rs))

grep_files(f, query, pattern, root_dir) ==
    IF ReCompileFails(query)
    THEN Raised("re.error", f, <<>>)
    ELSE IF pattern = ""
    THEN Raised("ValueError", f, <<>>)
    ELSE LET ms == RGlob(f, pattern, root_dir)
             results == Flatten([i \in 1..Len(ms) |-> GrepFile(f, query, ms[i], root_dir)])
         IN  Returned("str",
                      IF results # <<>> THEN JoinLines(results) ELSE <<"No matches found.">>,
                      f, <<>>)

\* security.hooks.validate_command: allows, denies, or fails itself
GateVerdicts == {"allow", "deny", "raise"}

\* subprocess.run: what the spawned command does
ProcOutcomes == {"stdout", "stderr", "empty", "timeout", "oserror"}

Validate(command, allowed) == [e |-> "validate", cmd |-> command, allowed |-> allowed]

Spawn(command) == [e |-> "spawn", cmd |-> command, allowed |-> TRUE]

\* a gate that lets every command through
GateAllowsAlways(verdict) == TRUE

\* 1. validate security: is_allowed
GateAllows(verdict) == verdict = "allow"

\* 2. subprocess.run(command, shell=True, ..., timeout=300)
RunCommand(f, command, outcome, log) ==
    IF command = NoneVal \/ outcome = "oserror"
    THEN Returned("str", <<"Error executing command: ">>, f, log)
    ELSE IF outcome = "timeout"
    THEN Returned("str", <<"Error: Command timed out after 300 seconds.">>, f,
                  log \o <<Spawn(command)>>)
    ELSE IF outcome = "empty"
    THEN Returned("str", <<"[Command executed with no output]">>, f,
                  log \o <<Spawn(command)>>)
    ELSE IF outcome = "stderr"
    THEN Returned("str", <<"out", "\nStderr:\n", "err">>, f, log \o <<Spawn(command)>>)
    ELSE Returned("str", <<"out">>, f, log \o <<Spawn(command)>>)

execute_bash(f, command, verdict, outcome) ==
    IF verdict = "raise"
    THEN Raised("GateError", f, <<>>)
    ELSE IF ~GateAllows(verdict)
    THEN Returned("str", <<"Error: Command blocked by security policy: ", "reason">>, f,
                  <<Validate(command, verdict = "allow")>>)
    ELSE RunCommand(f, command, outcome, <<Validate(command, verdict = "allow")>>)


(***************************************************************************)
(* SpecTools: the six tool functions called directly, on one small file    *)
(* system.  The inputs of each call are drawn from the sets below.         *)
(***************************************************************************)
FileA == <<"/", "w", "a.txt">>

FileBin == <<"/", "w", "b.bin">>

FileLocked == <<"/", "w", "c.txt">>

Chars == {"a", "B", "\n"}

RECURSIVE SeqsUpTo(_, _)
SeqsUpTo(S, n) ==
    IF n = 0 THEN {<<>>}
    ELSE LET shorter == SeqsUpTo(S, n - 1)
         IN  shorter \cup {Append(s, c) : s \in {t \in shorter : Len(t) = n - 1}, c \in S}

\* every text of up to MaxFileLen characters, and two with carriage returns
Contents == SeqsUpTo(Chars, MaxFileLen) \cup {<<"a", "\r">>, <<"\r", "\n">>}

\* what Write is given
WriteContents == {<<>>, <<"a">>, <<"a", "\n">>, <<"a", "\n", "B">>, <<"a", "\r">>,
                  <<"\r", "\n">>}

ToolPaths == {<<"a.txt">>, FileBin, FileLocked, <<"gone.txt">>}

LineNumbers == {-1, 0, 1, 2, 3}

\* Write is tried on the one text file, on a file without permission and under a file
WritePaths == {<<"a.txt">>, FileA, FileLocked, FileBin \o <<"x">>}

OptInts == {<<>>} \cup {<<n>> : n \in LineNumbers}

Patterns == {"*", "a.txt", ""}

Roots == {<<>>, ProcCwd, <<"/", "nowhere">>}

Queries == {<<"b">>, <<"a", "B">>, <<"(">>}

Commands == {<<"ls">>, <<"rm">>, NoneVal}

\* what is decoded of the file that is not UTF-8 before the decoder fails: the file
\* is longer than one buffer, and the buffers before the bad one hold a line
DecodedBefore == {<<"B", "\n">>}

InitFiles == {[p \in {FileA, FileBin, FileLocked} |->
                  IF p = FileA THEN a
                  ELSE IF p = FileBin THEN [kind |-> "binary", data |-> b]
                  ELSE [kind |-> "locked", data |-> <<>>]] :
              a \in {Missing} \cup {TextFile(c) : c \in Contents},
              b \in DecodedBefore}

NoCall == [op |-> "none", args |-> <<>>, raised |-> "", type |-> "none", value |-> <<>>]

Called(op, args, r) ==
    [op |-> op, args |-> args, raised |-> r.raised, type |-> r.type, value |-> r.value]

EngineIdle ==
    /\ engine = "none"
    /\ pc = "idle"
    /\ system_prompt = ""
    /\ max_turns = 1
    /\ history = <<>>
    /\ chat_history = <<>>
    /\ tool_calls = <<>>
    /\ current_content = <<>>
    /\ idx = 1
    /\ pending = <<>>
    /\ current_response = "none"
    /\ events = <<>>
    /\ received = <<>>
    /\ chunks = 0
    /\ queries = 0

\* no command built, no child process
NoCommand == [template |-> <<>>, cmd_str |-> <<>>, args |-> <<>>, is_streaming |-> FALSE]

NoProcess == [state |-> "none", args |-> <<>>, stdin |-> "none", stdin_data |-> <<>>,
              stdout |-> "none", stderr |-> "none", returncode |-> NoneVal,
              stderr_data |-> NoneVal]

\* no instance of the two-instance process constructed
NoInstance ==
    [kind |-> "none", api_key |-> NoneVal, client |-> NoneVal, history |-> <<>>,
     spec_dir |-> NoneVal, session_id |-> NoneVal, released |-> FALSE]

\* no child program with pipes
NoPipes ==
    [pc |-> "none", is_streaming |-> FALSE, unsent |-> 0, stdin |-> 0,
     stdin_closed |-> FALSE, stdout |-> 0, stderr |-> 0, prog |-> <<>>,
     child |-> "none", returncode |-> 0]

\* no ClaudeAgentEngine constructed
SdkIdle ==
    /\ claude = [calls |-> <<>>, yielded |-> <<>>, gen |-> "none"]
    /\ sdk_client = [has_set_system_prompt |-> FALSE, calls |-> <<>>,
                     yielded |-> <<>>]
    /\ pipes = NoPipes

PairIdle ==
    /\ genai_config = NoneVal
    /\ instances = <<NoInstance, NoInstance>>
    /\ session_files = <<>>
    /\ SdkIdle

\* no CustomCliAgentEngine constructed
CliIdle ==
    /\ template = <<>>
    /\ spec_dir = NoneVal
    /\ session_id = NoneVal
    /\ marker = NoneVal
    /\ cli_prompt = <<>>
    /\ cli_command = NoCommand
    /\ process = NoProcess
    /\ scope = "outside"
    /\ cleanups = 0

InitTools ==
    /\ EngineIdle
    /\ CliIdle
    /\ PairIdle
    /\ fs \in InitFiles
    /\ syslog = <<>>
    /\ last = NoCall

\* the call returns r: the file system and the gate/process log are what it left
ToolDone(op, args, r) ==
    /\ fs' = r.fs
    /\ syslog' = r.log
    /\ last' = Called(op, args, r)
    /\ UNCHANGED <<engineVars, cliVars, pairVars>>

ToolRead ==
    \E p \in ToolPaths, s \in OptInts, e \in OptInts :
        ToolDone("Read", <<p, s, e>>, read_file(fs, p, s, e))

ToolWrite ==
    \E p \in WritePaths, c \in WriteContents :
        ToolDone("Write", <<p, c>>, write_file(fs, p, c))

ToolEdit ==
    \E p \in ToolPaths, t \in SeqsUpTo(Chars, 1), r \in SeqsUpTo(Chars, 1) :
        /\ Len(edit_file(fs, p, t, r).fs[FileA].data) <= MaxFileLen
        /\ ToolDone("Edit", <<p, t, r>>, edit_file(fs, p, t, r))

ToolGlob ==
    \E pat \in Patterns, root \in Roots :
        ToolDone("Glob", <<pat, root>>, glob_files(fs, pat, root))

ToolGrep ==
    \E q \in Queries, pat \in Patterns, root \in Roots :
        ToolDone("Grep", <<q, pat, root>>, grep_files(fs, q, pat, root))

ToolBash ==
    \E c \in Commands, v \in GateVerdicts, o \in ProcOutcomes :
        ToolDone("Bash", <<c, <<v>>, <<o>>>>, execute_bash(fs, c, v, o))

NextTools == ToolRead \/ ToolWrite \/ ToolEdit \/ ToolGlob \/ ToolGrep \/ ToolBash

SpecTools == InitTools /\ [][NextTools]_vars


(***************************************************************************)
(* core/engine.py: what the two API engines share.                         *)
(***************************************************************************)
BuiltinTools == {"Read", "Write", "Edit", "Glob", "Grep", "Bash"}

\* options.cwd
OptionsCwd == <<"/", "proj">>

\* the parameters of each tool function, and those without a default
Params(name) ==
    CASE name = "Read"  -> {"file_path", "start_line", "end_line"}
      [] name = "Write" -> {"file_path", "content"}
      [] name = "Edit"  -> {"file_path", "target_content", "replacement_content"}
      [] name = "Glob"  -> {"pattern", "root_dir"}
      [] name = "Grep"  -> {"query", "pattern", "root_dir"}
      [] OTHER          -> {}

Required(name) ==
    CASE name = "Read"  -> {"file_path"}
      [] name = "Write" -> {"file_path", "content"}
      [] name = "Edit"  -> {"file_path", "target_content", "replacement_content"}
      [] name = "Glob"  -> {"pattern"}
      [] name = "Grep"  -> {"query"}
      [] OTHER          -> {}

\* tool(**args) binds: every required parameter is given and no other keyword
Binds(name, args) ==
    Required(name) \subseteq DOMAIN args /\ DOMAIN args \subseteq Params(name)

\* args.get(key), with a default
Get(args, key, default) == IF key \in DOMAIN args THEN args[key] ELSE default

WithKey(args, key, value) ==
    [k \in DOMAIN args \cup {key} |-> IF k = key THEN value ELSE args[k]]

\* a path resolution that leaves every file_path as it is
ResolveFilePathNever(args) == args

\* a file_path that is not absolute is joined to the working directory; one that
\* is no string makes Path() fail, which is swallowed, and stays as it is
ResolveFilePath(args) ==
    IF /\ "file_path" \in DOMAIN args
       /\ args["file_path"] # NoneVal
       /\ ~IsAbsolute(args["file_path"])
    THEN WithKey(args, "file_path", OptionsCwd \o args["file_path"])
    ELSE args

WithRootDir(args) ==
    IF "root_dir" \notin DOMAIN args THEN WithKey(args, "root_dir", OptionsCwd) ELSE args

\* a dispatcher that fails on a name it does not know
UnknownToolRaises(eng, name, f) == Raised("KeyError", f, <<>>)

\* the result when no branch of the dispatch matches the name
UnknownTool(eng, name, f) ==
    Returned("str", <<"Error: Tool ", name,
                      IF eng = "gemini" THEN " not implemented." ELSE " not found">>,
             f, <<>>)

\* the if/elif chain over the tool name, after path resolution; args is a mapping
Dispatch(eng, name, args0, f, verdict, outcome) ==
    LET args == ResolveFilePath(args0)
    IN  CASE name = "Read" ->
               IF ~Binds(name, args) THEN Raised("TypeError", f, <<>>)
               ELSE read_file(f, args["file_path"], Get(args, "start_line", <<>>),
                              Get(args, "end_line", <<>>))
          [] name = "Write" ->
               IF ~Binds(name, args) THEN Raised("TypeError", f, <<>>)
               ELSE write_file(f, args["file_path"], args["content"])
          [] name = "Edit" ->
               IF ~Binds(name, args) THEN Raised("TypeError", f, <<>>)
               ELSE edit_file(f, args["file_path"], args["target_content"],
                              args["replacement_content"])
          [] name = "Glob" ->
               IF ~Binds(name, WithRootDir(args)) THEN Raised("TypeError", f, <<>>)
               ELSE glob_files(f, args["pattern"][1], WithRootDir(args)["root_dir"])
          [] name = "Grep" ->
               IF ~Binds(name, WithRootDir(args)) THEN Raised("TypeError", f, <<>>)
               ELSE grep_files(f, args["query"], Get(args, "pattern", <<"*">>)[1],
                               WithRootDir(args)["root_dir"])
          [] name = "Bash" ->
               execute_bash(f, Get(args, "command", NoneVal), verdict, outcome)
          [] OTHER -> UnknownTool(eng, name, f)

(***************************************************************************)
(* json.loads on an argument string or an output line.  The tokens of the  *)
(* model's JSON texts are the braces, the comma, "null" and key:value      *)
(* pairs.                                                                  *)
(***************************************************************************)
JsonPairs ==
    {[tok |-> "file_path:a.txt", key |-> "file_path", val |-> <<"a.txt">>],
     [tok |-> "command:ls", key |-> "command", val |-> <<"ls">>],
     [tok |-> "session_id:s1", key |-> "session_id", val |-> <<"s", "1">>],
     [tok |-> "session_id:s2 ", key |-> "session_id", val |-> <<"s", "2", " ">>],
     [tok |-> "session_id:", key |-> "session_id", val |-> <<>>],
     [tok |-> "content:hi", key |-> "content", val |-> <<"h", "i">>]}

IsPair(tok) == \E p \in JsonPairs : p.tok = tok

PairOf(tok) == CHOOSE p \in JsonPairs : p.tok = tok

\* pair ("," pair)*
RECURSIVE IsMembers(_)
IsMembers(s) ==
    /\ s # <<>>
    /\ IsPair(s[1])
    /\ \/ Len(s) = 1
       \/ Len(s) >= 3 /\ s[2] = "," /\ IsMembers(SubSeq(s, 3, Len(s)))

IsJsonObject(s) ==
    /\ Len(s) >= 2
    /\ s[1] = "{"
    /\ s[Len(s)] = "}"
    /\ (Len(s) = 2 \/ IsMembers(SubSeq(s, 2, Len(s) - 1)))

\* the mapping of an object: a repeated key keeps its last value
RECURSIVE MembersToDict(_, _)
MembersToDict(s, d) ==
    IF s = <<>> THEN d
    ELSE IF IsPair(s[1])
    THEN MembersToDict(Tail(s), WithKey(d, PairOf(s[1]).key, PairOf(s[1]).val))
    ELSE MembersToDict(Tail(s), d)

\* try: args = json.loads(arguments)  except: args = {}
ParseArguments(s) ==
    IF IsJsonObject(s)
    THEN [valid |-> TRUE, mapping |-> TRUE,
          args |-> MembersToDict(SubSeq(s, 2, Len(s) - 1), EmptyArgs)]
    ELSE IF s = <<"null">>
    THEN [valid |-> TRUE, mapping |-> FALSE, args |-> EmptyArgs]
    ELSE [valid |-> FALSE, mapping |-> TRUE, args |-> EmptyArgs]

(***************************************************************************)
(* What the engines are given: configuration, user messages, and what the  *)
(* backend streams.                                                        *)
(***************************************************************************)
Prompts == {"p0", "p1"}

Messages == {<<"q">>}

TurnBudgets == {1}

AllowedTools == BuiltinTools

\* the project file the model's Read calls name
FileP == OptionsCwd \o <<"a.txt">>

ProjectFiles == [p \in {FileP} |-> TextFile(<<"a", "\n">>)]

\* the gate and the spawned command, as the engines' Bash calls meet them
EngineVerdicts == {"allow", "deny"}

EngineOutcomes == {"stdout"}

Ev(e, k, name, id, content) ==
    [e |-> e, k |-> k, name |-> name, id |-> id, content |-> content]

Count(evs, e) == Cardinality({i \in 1..Len(evs) : evs[i].e = e})

\* the content blocks of AssistantMessage
TextBlock(text) == [block |-> "text", text |-> text]

ToolUseBlock(name, input) ==
    [block |-> "tool_use", name |-> name, input |-> input, id |-> "dummy_id"]

\* the blocks of one part of a candidate: its text if it has any, its function
\* call if it has one (function_call holds no call or one)
PartBlocks(part) ==
    (IF part.text # <<>> THEN <<TextBlock(part.text)>> ELSE <<>>)
      \o [i \in 1..Len(part.function_call) |->
            ToolUseBlock(part.function_call[i].name, part.function_call[i].args)]

\* AssistantMessage._parse_content: a chunk object is a record of its attributes;
\* a str chunk gives a text block unless it is blank, a chunk with candidates the
\* blocks of their parts, any other chunk a text block when it has a text attribute
ParseContent(chunk) ==
    IF "str" \in DOMAIN chunk
    THEN IF Strip(chunk.str) # <<>> THEN <<TextBlock(chunk.str)>> ELSE <<>>
    ELSE IF "candidates" \in DOMAIN chunk
    THEN Flatten([i \in 1..Len(chunk.candidates) |->
                    Flatten([j \in 1..Len(chunk.candidates[i].parts) |->
                               PartBlocks(chunk.candidates[i].parts[j])])])
    ELSE IF "text" \in DOMAIN chunk /\ chunk.text # <<>>
    THEN <<TextBlock(chunk.text)>>
    ELSE <<>>

\* a ChatCompletionChunk of the OpenAI stream: choices[0].delta and no other
\* attribute that _parse_content looks at
CompletionChunk(delta) == [choices |-> <<[delta |-> delta]>>]

\* the events since the stream of the current pass ended
RECURSIVE SinceStreamEnd(_)
SinceStreamEnd(evs) ==
    IF evs = <<>> \/ evs[Len(evs)].e = "stream_end" THEN <<>>
    ELSE Append(SinceStreamEnd(SubSeq(evs, 1, Len(evs) - 1)), evs[Len(evs)])

\* for fc in function_calls / for tc in tool_calls: the call of iteration i
NthCallReversed(calls, i) == calls[Len(calls) + 1 - i]

NthCall(calls, i) == calls[i]

(***************************************************************************)
(* OpenAIAgentEngine                                                       *)
(***************************************************************************)
Entry(role, content, tcs, id, name) ==
    [role |-> role, content |-> content, tool_calls |-> tcs, tool_call_id |-> id,
     name |-> name]

SystemEntry(prompt) == Entry("system", <<prompt>>, <<>>, "", "")

\* a _set_system_prompt_msg that always inserts
SetSystemPromptMsgInsert(h, prompt) == <<SystemEntry(prompt)>> \o h

\* _set_system_prompt_msg: initialize or update the system prompt in history
SetSystemPromptMsg(h, prompt) ==
    IF h = <<>> THEN <<SystemEntry(prompt)>>
    ELSE IF h[1].role = "system" THEN [h EXCEPT ![1] = SystemEntry(prompt)]
    ELSE <<SystemEntry(prompt)>> \o h

\* the fragments of tool calls the model's backend streams: two opening fragments
\* (identifier, name, start of the argument string) and one closing fragment
Fragments ==
    {[id |-> "r", name |-> "Read", arguments |-> <<"{", "file_path:a.txt">>],
     [id |-> "b", name |-> "Bash", arguments |-> <<"{", "command:ls">>],
     [id |-> "", name |-> "", arguments |-> <<"}">>]}

Indexes == {0, 1}

TcChunk(i, frag) ==
    [index |-> i, id |-> frag.id, name |-> frag.name, arguments |-> frag.arguments]

\* chunk.choices[0].delta: text, or one tool-call fragment
Deltas ==
    {[content |-> <<"hi">>, tool_calls |-> <<>>]}
        \cup {[content |-> <<>>, tool_calls |-> <<TcChunk(i, frag)>>] :
                  i \in Indexes, frag \in Fragments}

EmptySlot == [id |-> "", name |-> "", arguments |-> <<>>]

\* tc["id"] += ..., tc["function"]["name"] += ..., tc["function"]["arguments"] += ...
AddFragment(tc, c) ==
    [id |-> tc.id \o c.id, name |-> tc.name \o c.name,
     arguments |-> tc.arguments \o c.arguments]

\* one tc_chunk: a slot is appended when the list is not longer than the index,
\* then tool_calls[index] is read, which fails when the index is still out of range
CollectOne(tcs, c) ==
    LET grown == IF Len(tcs) <= c.index THEN Append(tcs, EmptySlot) ELSE tcs
    IN  IF c.index >= Len(grown)
        THEN [raised |-> "IndexError", tool_calls |-> grown]
        ELSE [raised |-> "",
              tool_calls |-> [grown EXCEPT ![c.index + 1] = AddFragment(@, c)]]

\* for tc_chunk in delta.tool_calls
RECURSIVE CollectToolCalls(_, _)
CollectToolCalls(tcs, cs) ==
    IF cs = <<>> THEN [raised |-> "", tool_calls |-> tcs]
    ELSE LET r == CollectOne(tcs, Head(cs))
         IN  IF r.raised # "" THEN r ELSE CollectToolCalls(r.tool_calls, Tail(cs))

\* a generator suspended at an await or a yield lets the caller run other methods
OpenAISuspended == pc \in {"idle", "stream"} \/ (pc = "tools" /\ idx > 1)

\* query: made when no generator is running, that is before a turn, after the
\* generator returned, or after an exception left it
OpenAIQuery ==
    /\ engine = "openai"
    /\ pc \in {"idle", "raised"}
    /\ queries < MaxQueries
    /\ \E m \in Messages : history' = Append(history, Entry("user", m, <<>>, "", ""))
    /\ queries' = queries + 1
    /\ pc' = "idle"
    /\ UNCHANGED <<engine, system_prompt, max_turns, chat_history, tool_calls,
                   current_content, idx, pending, current_response, events,
                   received, chunks, fs, syslog, last, cliVars, pairVars>>

OpenAISetSystemPrompt ==
    /\ engine = "openai"
    /\ OpenAISuspended
    /\ \E p \in Prompts :
          /\ system_prompt' = p
          /\ history' = SetSystemPromptMsg(history, p)
    /\ UNCHANGED <<engine, pc, max_turns, chat_history, tool_calls, current_content,
                   idx, pending, current_response, events, received, chunks,
                   queries, fs, syslog, last, cliVars, pairVars>>

\* response_stream = await self.client.chat.completions.create(**kwargs)
OpenAIRequest ==
    /\ engine = "openai"
    /\ \/ pc = "idle" /\ events' = <<Ev("request", 0, "", "", <<>>)>>
       \/ /\ pc = "tools"
          /\ idx > Len(tool_calls)
          /\ events' = Append(events, Ev("request", 0, "", "", <<>>))
    /\ pc' = "stream"
    /\ tool_calls' = <<>>
    /\ current_content' = <<>>
    /\ received' = <<>>
    /\ idx' = 1
    /\ UNCHANGED <<engine, system_prompt, max_turns, history, chat_history, pending,
                   current_response, chunks, queries, fs, syslog, last, cliVars, pairVars>>

\* async for chunk in response_stream: one delta
OpenAIChunkFrom(deltas) ==
    /\ engine = "openai"
    /\ pc = "stream"
    /\ chunks < MaxChunks
    /\ \E d \in deltas :
          LET r == CollectToolCalls(tool_calls, d.tool_calls)
              text == IF d.content # <<>>
                      THEN <<Ev("text", 0, "", "",
                                ParseContent(CompletionChunk(d)))>>
                      ELSE <<>>
          IN  /\ current_content' = current_content \o d.content
              /\ tool_calls' = r.tool_calls
              /\ received' = received \o d.tool_calls
              /\ IF r.raised # ""
                 THEN /\ pc' = "raised"
                      /\ events' = events \o text \o <<Ev("raise", 0, "", "", <<r.raised>>)>>
                 ELSE /\ pc' = "stream"
                      /\ events' = events \o text
    /\ chunks' = chunks + 1
    /\ UNCHANGED <<engine, system_prompt, max_turns, history, chat_history, idx, pending,
                   current_response, queries, fs, syslog, last, cliVars, pairVars>>

OpenAIChunk == OpenAIChunkFrom(Deltas)

\* if tool_calls: ... else: break
HasCallsAlways(calls) == TRUE

HasCalls(calls) == calls # <<>>

\* the stream of the pass ends: the assistant's text and tool calls go to history
OpenAIStreamEnd ==
    /\ engine = "openai"
    /\ pc = "stream"
    /\ history' = history
          \o (IF current_content # <<>>
              THEN <<Entry("assistant", current_content, <<>>, "", "")>> ELSE <<>>)
          \o (IF HasCalls(tool_calls)
              THEN <<Entry("assistant",
                           IF current_content # <<>> THEN current_content ELSE NoneVal,
                           tool_calls, "", "")>>
              ELSE <<>>)
    /\ events' = Append(events, Ev("stream_end", 0, "", "", <<>>))
    /\ pc' = IF HasCalls(tool_calls) THEN "tools" ELSE "idle"
    /\ idx' = 1
    /\ UNCHANGED <<engine, system_prompt, max_turns, chat_history, tool_calls,
                   current_content, pending, current_response, received, chunks,
                   queries, fs, syslog, last, cliVars, pairVars>>

\* _handle_tool_calls, one iteration: parse, resolve, dispatch, append, yield
OpenAIExec ==
    /\ engine = "openai"
    /\ pc = "tools"
    /\ idx <= Len(tool_calls)
    /\ \E verdict \in EngineVerdicts, outcome \in EngineOutcomes :
          LET tc == NthCall(tool_calls, idx)
              parsed == ParseArguments(tc.arguments)
              r == IF ~parsed.mapping THEN Raised("TypeError", fs, <<>>)
                   ELSE Dispatch("openai", tc.name, parsed.args, fs, verdict, outcome)
          IN  /\ fs' = r.fs
              /\ syslog' = r.log
              /\ IF r.raised # ""
                 THEN /\ pc' = "raised"
                      /\ events' = events \o <<Ev("exec", idx, tc.name, tc.id, <<>>),
                                              Ev("raise", idx, tc.name, tc.id, <<r.raised>>)>>
                      /\ UNCHANGED <<history, idx>>
                 ELSE /\ pc' = "tools"
                      /\ history' = Append(history,
                                           Entry("tool", r.value, <<>>, tc.id, tc.name))
                      /\ events' = events \o <<Ev("exec", idx, tc.name, tc.id, r.value),
                                              Ev("outcome", idx, tc.name, tc.id, r.value)>>
                      /\ idx' = idx + 1
    /\ UNCHANGED <<engine, system_prompt, max_turns, chat_history, tool_calls,
                   current_content, pending, current_response, received, chunks,
                   queries, last, cliVars, pairVars>>

(***************************************************************************)
(* GeminiAgentEngine                                                       *)
(***************************************************************************)
\* BaseAgentEngine.history, which the Gemini engine never appends to
BaseHistory == <<>>

ChatEntry(role, text, calls, results) ==
    [role |-> role, text |-> text, calls |-> calls, results |-> results]

\* a start_chat that drops the history it is given
StartChatEmpty(h) == <<>>

\* self.model.start_chat(history=h): a new session that starts with h
StartChat(h) == h

\* _configure_tools: with tools to register, the chat restarts on self.history
ConfigureTools(h) ==
    IF AllowedTools \cap BuiltinTools # {} THEN StartChat(BaseHistory) ELSE h

FunctionCall(name, args) == [id |-> "dummy_id", name |-> name, args |-> args]

\* the chunks the model's backend streams: text, or one function_call part
GeminiChunks ==
    {[text |-> <<"hi">>, function_calls |-> <<>>],
     [text |-> <<>>,
      function_calls |-> <<FunctionCall("Read", [file_path |-> <<"a.txt">>])>>],
     [text |-> <<>>,
      function_calls |-> <<FunctionCall("Bash", [command |-> <<"ls">>])>>],
     [text |-> <<>>, function_calls |-> <<FunctionCall("Grep", EmptyArgs)>>]}

\* UserMessage("dummy_id", result)
UserMessage(tool_use_id, content) ==
    [tool_use_id |-> tool_use_id, content |-> content, is_error |-> FALSE]

\* a list of results that holds the last result only
ToolResultsLastOnly(calls, results) ==
    <<[name |-> calls[Len(results)].name, result |-> results[Len(results)].content]>>

\* tool_results: one function_response per executed call, in order
ToolResults(calls, results) ==
    [i \in 1..Len(results) |-> [name |-> calls[i].name, result |-> results[i].content]]

\* a loop over the pending results that yields none of them
PendingToYieldNone(p) == <<>>

\* for res in self._pending_tool_results
PendingToYield(p) == p

GeminiSuspended == pc \in {"idle", "stream", "yield"}

\* query: the first call configures the tools, then the message is sent; it is made
\* when no generator is running, be it that the last one returned or raised
GeminiQuery ==
    /\ engine = "gemini"
    /\ pc \in {"idle", "raised"}
    /\ pc' = "idle"
    /\ current_response # "open"
    /\ queries < MaxQueries
    /\ \E m \in Messages :
          chat_history' =
              Append(IF queries = 0 THEN ConfigureTools(chat_history) ELSE chat_history,
                     ChatEntry("user", m, <<>>, <<>>))
    /\ events' = <<Ev("request", 0, "", "", <<>>)>>
    /\ current_response' = "open"
    /\ queries' = queries + 1
    /\ UNCHANGED <<engine, system_prompt, max_turns, history, tool_calls,
                   current_content, idx, pending, received, chunks, fs, syslog, last,
                   cliVars, pairVars>>

\* set_system_prompt: the model is rebuilt, the chat restarts on the old history
GeminiSetSystemPrompt ==
    /\ engine = "gemini"
    /\ GeminiSuspended
    /\ \E p \in Prompts : system_prompt' = p
    /\ chat_history' = StartChat(chat_history)
    /\ UNCHANGED <<engine, pc, max_turns, history, tool_calls, current_content, idx,
                   pending, current_response, events, received, chunks, queries, fs,
                   syslog, last, cliVars, pairVars>>

\* receive_response is called: nothing without a response, else the loop starts
GeminiReceiveResponse ==
    /\ engine = "gemini"
    /\ pc = "idle"
    /\ current_response # "none"
    /\ pc' = "stream"
    /\ tool_calls' = <<>>
    /\ current_content' = <<>>
    /\ UNCHANGED <<engine, system_prompt, max_turns, history, chat_history, idx, pending,
                   current_response, events, received, chunks, queries, fs,
                   syslog, last, cliVars, pairVars>>

\* a loop body that yields nothing for the chunk it read
EmitChunkNever(c) == <<>>

\* a chunk of the Gemini stream: one candidate whose parts are the text, if any,
\* and the function calls
GenerateContentResponse(c) ==
    [candidates |->
       <<[parts |-> (IF c.text # <<>> THEN <<[text |-> c.text, function_call |-> <<>>]>>
                     ELSE <<>>)
                    \o [i \in 1..Len(c.function_calls) |->
                          [text |-> <<>>, function_call |-> <<c.function_calls[i]>>]]]>>]

\* yield AssistantMessage(chunk): one envelope holding the chunk's text and calls
EmitChunk(c) ==
    <<Ev("emit", Len(c.function_calls), "", "", ParseContent(GenerateContentResponse(c)))>>

\* async for chunk in self._current_response: the chunk is yielded, its calls collected
GeminiChunkFrom(streamed) ==
    /\ engine = "gemini"
    /\ pc = "stream"
    /\ current_response = "open"
    /\ chunks < MaxChunks
    /\ \E c \in streamed :
          /\ events' = Append(events, Ev("chunk", Len(c.function_calls), "", "", c.text))
                           \o EmitChunk(c)
          /\ tool_calls' = tool_calls \o c.function_calls
          /\ current_content' = current_content \o c.text
    /\ chunks' = chunks + 1
    /\ UNCHANGED <<engine, pc, system_prompt, max_turns, history, chat_history, idx,
                   pending, current_response, received, queries, fs, syslog, last, cliVars, pairVars>>

GeminiChunk == GeminiChunkFrom(GeminiChunks)

\* the stream of the pass is exhausted; the chat session records the model's turn;
\* with calls collected, _handle_tool_calls starts with an empty list of results
GeminiStreamEnd ==
    /\ engine = "gemini"
    /\ pc = "stream"
    /\ chat_history' =
          IF current_response = "open"
          THEN Append(chat_history, ChatEntry("model", current_content, tool_calls, <<>>))
          ELSE chat_history
    /\ current_response' = "exhausted"
    /\ events' = IF current_response = "open"
                 THEN Append(events, Ev("stream_end", 0, "", "", <<>>)) ELSE events
    /\ pc' = IF HasCalls(tool_calls) THEN "tools" ELSE "idle"
    /\ idx' = 1
    /\ pending' = IF HasCalls(tool_calls) THEN <<>> ELSE pending
    /\ UNCHANGED <<engine, system_prompt, max_turns, history, tool_calls,
                   current_content, received, chunks, queries, fs, syslog, last, cliVars, pairVars>>

\* _handle_tool_calls, one iteration of the loop: resolve, dispatch, store the result
GeminiExec ==
    /\ engine = "gemini"
    /\ pc = "tools"
    /\ idx <= Len(tool_calls)
    /\ \E verdict \in EngineVerdicts, outcome \in EngineOutcomes :
          LET fc == NthCall(tool_calls, idx)
              r == Dispatch("gemini", fc.name, fc.args, fs, verdict, outcome)
          IN  /\ fs' = r.fs
              /\ syslog' = r.log
              /\ IF r.raised # ""
                 THEN /\ pc' = "raised"
                      /\ events' = events \o <<Ev("exec", idx, fc.name, fc.id, <<>>),
                                              Ev("raise", idx, fc.name, fc.id, <<r.raised>>)>>
                      /\ UNCHANGED <<pending, idx>>
                 ELSE /\ pc' = "tools"
                      /\ pending' = Append(pending, UserMessage("dummy_id", r.value))
                      /\ events' = Append(events, Ev("exec", idx, fc.name, fc.id, r.value))
                      /\ idx' = idx + 1
    /\ UNCHANGED <<engine, system_prompt, max_turns, history, chat_history, tool_calls,
                   current_content, current_response, received, chunks, queries,
                   last, cliVars, pairVars>>

\* _handle_tool_calls, after the loop: the results are sent and a new stream opens
GeminiSendResults ==
    /\ engine = "gemini"
    /\ pc = "tools"
    /\ idx > Len(tool_calls)
    /\ chat_history' = Append(chat_history,
                              ChatEntry("user", <<>>, <<>>, ToolResults(tool_calls, pending)))
    /\ events' = Append(events, Ev("request", Len(pending), "", "", <<>>))
    /\ current_response' = "open"
    /\ pc' = "yield"
    /\ idx' = 1
    /\ UNCHANGED <<engine, system_prompt, max_turns, history, tool_calls,
                   current_content, pending, received, chunks, queries, fs, syslog, last, cliVars, pairVars>>

\* for res in self._pending_tool_results: yield res
GeminiYield ==
    /\ engine = "gemini"
    /\ pc = "yield"
    /\ idx <= Len(PendingToYield(pending))
    /\ events' = Append(events,
                        Ev("outcome", idx, tool_calls[idx].name,
                           PendingToYield(pending)[idx].tool_use_id,
                           PendingToYield(pending)[idx].content))
    /\ idx' = idx + 1
    /\ UNCHANGED <<engine, pc, system_prompt, max_turns, history, chat_history,
                   tool_calls, current_content, pending, current_response,
                   received, chunks, queries, fs, syslog, last, cliVars, pairVars>>

\* self._pending_tool_results = []; continue
GeminiContinue ==
    /\ engine = "gemini"
    /\ pc = "yield"
    /\ idx > Len(PendingToYield(pending))
    /\ pending' = <<>>
    /\ pc' = "stream"
    /\ tool_calls' = <<>>
    /\ current_content' = <<>>
    /\ idx' = 1
    /\ UNCHANGED <<engine, system_prompt, max_turns, history, chat_history,
                   current_response, events, received, chunks, queries, fs,
                   syslog, last, cliVars, pairVars>>

(***************************************************************************)
(* Spec: one engine, constructed as either class, driven by its caller and *)
(* its backend.                                                            *)
(***************************************************************************)
Init ==
    /\ engine \in {"gemini", "openai"}
    /\ pc = "idle"
    /\ system_prompt = "p0"
    /\ max_turns \in TurnBudgets
    /\ history = IF engine = "openai" THEN SetSystemPromptMsg(<<>>, "p0") ELSE BaseHistory
    /\ chat_history = StartChat(<<>>)
    /\ tool_calls = <<>>
    /\ current_content = <<>>
    /\ idx = 1
    /\ pending = <<>>
    /\ current_response = "none"
    /\ events = <<>>
    /\ received = <<>>
    /\ chunks = 0
    /\ queries = 0
    /\ fs = ProjectFiles
    /\ syslog = <<>>
    /\ last = NoCall
    /\ CliIdle
    /\ PairIdle

Next ==
    \/ OpenAIQuery
    \/ OpenAISetSystemPrompt
    \/ OpenAIRequest
    \/ OpenAIChunk
    \/ OpenAIStreamEnd
    \/ OpenAIExec
    \/ GeminiQuery
    \/ GeminiSetSystemPrompt
    \/ GeminiReceiveResponse
    \/ GeminiChunk
    \/ GeminiStreamEnd
    \/ GeminiExec
    \/ GeminiSendResults
    \/ GeminiYield
    \/ GeminiContinue

Spec == Init /\ [][Next]_vars

(***************************************************************************)
(* Claims about the engines (checked under Spec).                          *)
(***************************************************************************)
ExecEvents(evs) == SelectSeq(evs, LAMBDA x : x.e = "exec")

OutcomeEvents(evs) == SelectSeq(evs, LAMBDA x : x.e = "outcome")

\* the receive_response generator is between the end of a stream and the next pass,
\* or a tool call of this pass has just raised
InToolPhase ==
    \/ pc \in {"tools", "yield"}
    \/ pc = "raised" /\ events[Len(events)].k > 0

\* C1: in both engines the calls collected in a pass are executed one at a time in
\* the order collected, and the ToolOutcome envelopes are emitted in that same order:
\* the executed calls are always the first calls of the list, in list order; the
\* outcomes emitted are the results of the first executed calls, in the same order;
\* when the loop over the calls has ended every call was executed, and when the pass
\* is over every outcome was emitted.
C1_ToolsInOrder ==
    InToolPhase =>
        LET cur == SinceStreamEnd(events)
            ex  == ExecEvents(cur)
            ou  == OutcomeEvents(cur)
        IN  /\ Len(ex) <= Len(tool_calls)
            /\ \A i \in 1..Len(ex) :
                  /\ ex[i].k = i
                  /\ ex[i].name = tool_calls[i].name
                  /\ ex[i].id = tool_calls[i].id
            /\ Len(ou) <= Len(ex)
            /\ \A j \in 1..Len(ou) :
                  /\ ou[j].k = j
                  /\ ou[j].name = ex[j].name
                  /\ ou[j].content = ex[j].content
            /\ (pc = "tools" /\ idx > Len(tool_calls)) => Len(ex) = Len(tool_calls)
            /\ (pc = "yield") => Len(ex) = Len(tool_calls)
            /\ (engine = "openai" /\ pc = "tools") => Len(ou) = Len(ex)
            /\ (pc = "yield" /\ idx > Len(pending)) => Len(ou) = Len(tool_calls)

\* C1 witness: the Gemini engine has executed a Read and then a Bash call of one pass
\* and has yielded both results
C1_Witness ==
    /\ engine = "gemini"
    /\ pc = "yield"
    /\ idx = 3
    /\ Len(tool_calls) = 2
    /\ tool_calls[1].name = "Read"
    /\ tool_calls[2].name = "Bash"

\* the tool-resolution rounds of the turn: every request but the first follows one
Rounds == IF events = <<>> THEN 0 ELSE Count(events, "request") - 1

\* C2: the number of tool-resolution rounds within one turn never exceeds max_turns
\* (and the turn then ends with a truncation notice).  Refuted: neither
\* receive_response reads options.max_turns, the loop is `while True`.
C2_RoundsWithinBudget == Rounds <= max_turns

ForIndex(cs, i) == SelectSeq(cs, LAMBDA c : c.index = i)

RECURSIVE Reconstructed(_)
Reconstructed(cs) ==
    IF cs = <<>> THEN EmptySlot
    ELSE LET rest == Reconstructed(SubSeq(cs, 1, Len(cs) - 1))
             c == cs[Len(cs)]
         IN  [id |-> rest.id \o c.id, name |-> rest.name \o c.name,
              arguments |-> rest.arguments \o c.arguments]

\* C4: in the OpenAI engine, whatever tool-call deltas a pass has received, there is
\* exactly one reconstructed call per distinct stream index, holding the concatenation
\* in arrival order of the fragments addressed to that index.  Refuted: a first-seen
\* index that is not the next consecutive one gets no slot (IndexError).
C4_OneCallPerIndex ==
    engine = "openai" =>
        LET I == {received[j].index : j \in 1..Len(received)}
        IN  /\ Len(tool_calls) = Cardinality(I)
            /\ \A i \in I :
                  /\ i + 1 <= Len(tool_calls)
                  /\ tool_calls[i + 1] = Reconstructed(ForIndex(received, i))

\* C5: in the OpenAI engine a call of a built-in tool whose argument string is not
\* valid JSON never aborts the turn: no exception leaves receive_response.  Refuted:
\* the empty mapping is splatted into a function with required parameters.
C5_BadJsonNeverRaises ==
    ~ /\ engine = "openai"
      /\ pc = "raised"
      /\ events[Len(events)].k > 0
      /\ tool_calls[events[Len(events)].k].name \in BuiltinTools
      /\ ~ParseArguments(tool_calls[events[Len(events)].k].arguments).valid

SystemEntries(h) == {i \in 1..Len(h) : h[i].role = "system"}

\* C8: the OpenAI engine's history has at most one system entry and, if there is
\* one, it is the first entry.
C8_OneSystemEntryFirst ==
    engine = "openai" => SystemEntries(history) \subseteq {1}

\* C8 witness: the system prompt was replaced in a history that holds a tool result
C8_Witness ==
    /\ engine = "openai"
    /\ history[1] = SystemEntry("p1")
    /\ \E i \in 1..Len(history) : history[i].role = "tool"

NonSystem(h) == SelectSeq(h, LAMBDA x : x.role # "system")

\* C9: a set_system_prompt that changes the prompt leaves every user, assistant and
\* tool entry in place, with the same content and order: the OpenAI history but for
\* its system entry, and the history the Gemini chat session restarts with.
C9_SetSystemPromptKeepsHistory ==
    [][system_prompt' # system_prompt =>
          /\ NonSystem(history') = NonSystem(history)
          /\ chat_history' = chat_history]_vars

\* C9 witness: the Gemini engine's prompt was replaced with a turn in the chat history
C9_Witness ==
    /\ engine = "gemini"
    /\ system_prompt = "p1"
    /\ Len(chat_history) >= 2

\* C10: when the stream of a pass ends with no tool call collected, the turn is
\* complete: the generator returns, having executed no tool and issued no request.
C10_NoCallsCompletesTurn ==
    [][(pc = "stream" /\ pc' \notin {"stream", "raised"} /\ tool_calls = <<>>) =>
          /\ pc' = "idle"
          /\ Count(events', "request") = Count(events, "request")
          /\ Count(events', "exec") = Count(events, "exec")
          /\ fs' = fs]_vars

\* C10 witness: a turn that ended after a pass of text only
C10_Witness ==
    /\ pc = "idle"
    /\ tool_calls = <<>>
    /\ Len(events) >= 3
    /\ events[Len(events)].e = "stream_end"
    /\ events[Len(events) - 1].e \in {"text", "emit"}

\* the text an envelope carries, and its tool-call requests
BlockTexts(blocks) ==
    Flatten([i \in 1..Len(blocks) |->
               IF blocks[i].block = "text" THEN blocks[i].text ELSE <<>>])

ToolUses(blocks) == SelectSeq(blocks, LAMBDA b : b.block = "tool_use")

\* C11: in the Gemini engine every chunk read from the stream is emitted to the
\* caller exactly once, right after it is read and before the next chunk is read,
\* and no tool is executed while the stream of the pass is open: every execution
\* comes after the end of the stream of its pass, with no request in between.
C11_ChunksEmittedBeforeTools ==
    engine = "gemini" =>
        /\ \A j \in 1..Len(events) :
              events[j].e = "chunk" =>
                  /\ j < Len(events)
                  /\ events[j + 1].e = "emit"
                  /\ BlockTexts(events[j + 1].content) = events[j].content
                  /\ Len(ToolUses(events[j + 1].content)) = events[j].k
        /\ \A j \in 1..Len(events) :
              events[j].e = "emit" => j > 1 /\ events[j - 1].e = "chunk"
        /\ \A j \in 1..Len(events) :
              events[j].e = "exec" =>
                  \E i \in 1..(j - 1) :
                      /\ events[i].e = "stream_end"
                      /\ \A m \in (i + 1)..(j - 1) :
                            events[m].e \notin {"request", "chunk", "emit"}

\* C11 witness: a pass of two chunks, the second holding a call, which was executed
C11_Witness ==
    /\ engine = "gemini"
    /\ Len(events) >= 7
    /\ events[2].e = "chunk" /\ events[2].k = 0
    /\ events[4].e = "chunk" /\ events[4].k = 1
    /\ events[6].e = "stream_end"
    /\ events[7].e = "exec"

(***************************************************************************)
(* Claims about the built-in tool set (checked under SpecTools).           *)
(***************************************************************************)

\* C6: each of the six tool operations returns a value and never raises, whatever
\* its input (missing file, missing root, invalid regular expression, a gate that
\* denies or fails, a timeout).  Refuted: grep_files compiles the query outside any
\* try block, glob_files/grep_files pass an empty pattern to rglob, and execute_bash
\* calls the gate outside its try block.
C6_ToolsNeverRaise == last.raised = ""

\* C7: a process is spawned only right after the security gate was called for that
\* exact command and allowed it; when the gate denies, Bash returns the
\* "Error: Command blocked ..." string, having spawned nothing.
C7_SpawnOnlyAfterGateAllows ==
    /\ \A i \in 1..Len(syslog) :
          syslog[i].e = "spawn" =>
              i > 1 /\ syslog[i - 1] = Validate(syslog[i].cmd, TRUE)
    /\ (last.op = "Bash" /\ last.args[2] = <<"deny">>) =>
          /\ last.raised = ""
          /\ last.value[1] = "Error: Command blocked by security policy: "
          /\ syslog = <<Validate(last.args[1], FALSE)>>

\* C7 witness: the gate allowed a command and the process was spawned
C7_Witness ==
    /\ last.op = "Bash"
    /\ last.args[2] = <<"allow">>
    /\ syslog = <<Validate(last.args[1], TRUE), Spawn(last.args[1])>>

(***************************************************************************)
(* SpecConstruct: the constructors of the two API engines, called with     *)
(* every combination of API-key variables in options.env and os.environ.   *)
(***************************************************************************)
KeyNames == {"GEMINI_API_KEY", "GOOGLE_API_KEY", "ZAI_API_KEY", "OPENAI_API_KEY"}

\* a variable is absent, set to the empty string, or set to a key
KeyStates == {"absent", "empty", "set"}

\* options.env (None or a dict) and os.environ
OptionsEnvs == {NoneVal} \cup [KeyNames -> KeyStates]

Environs == [KeyNames -> KeyStates]

\* d.get(name): the value of the variable in mapping d, which is named by `where`
EnvGet(d, where, name) ==
    IF d = NoneVal \/ d[name] = "absent" THEN NoneVal
    ELSE IF d[name] = "empty" THEN <<>>
    ELSE <<where, name>>

\* Python truth of an Optional[str]
Truthy(v) == v # NoneVal /\ v # <<>>

\* a or b
PyOr(a, b) == IF Truthy(a) THEN a ELSE b

\* options.env or {}
OrEmptyDict(d) == IF d = NoneVal THEN [n \in KeyNames |-> "absent"] ELSE d

\* GeminiAgentEngine.__init__: GEMINI_API_KEY, then GOOGLE_API_KEY
GeminiApiKey(env, environ) ==
    LET first == PyOr(EnvGet(OrEmptyDict(env), "env", "GEMINI_API_KEY"),
                      EnvGet(environ, "environ", "GEMINI_API_KEY"))
    IN  IF Truthy(first) THEN first
        ELSE PyOr(EnvGet(OrEmptyDict(env), "env", "GOOGLE_API_KEY"),
                  EnvGet(environ, "environ", "GOOGLE_API_KEY"))

\* an OpenAI constructor that keeps the missing key
NoDummyKey(key) == key

\* if not self.api_key: self.api_key = "dummy-key"
DummyKey(key) == IF Truthy(key) THEN key ELSE <<"dummy-key">>

\* OpenAIAgentEngine.__init__: env ZAI, env OPENAI, environ ZAI, environ OPENAI
OpenAIApiKey(env, environ) ==
    DummyKey(PyOr(PyOr(PyOr(EnvGet(OrEmptyDict(env), "env", "ZAI_API_KEY"),
                            EnvGet(OrEmptyDict(env), "env", "OPENAI_API_KEY")),
                       EnvGet(environ, "environ", "ZAI_API_KEY")),
                  EnvGet(environ, "environ", "OPENAI_API_KEY")))

\* the constructor returns an instance holding api_key, or raises
Constructed(api_key) == [raised |-> "", type |-> "engine", value |-> api_key]

ConstructFailed(exc) == [raised |-> exc, type |-> "none", value |-> <<>>]

GeminiInit(env, environ) ==
    IF ~Truthy(GeminiApiKey(env, environ)) THEN ConstructFailed("ValueError")
    ELSE Constructed(GeminiApiKey(env, environ))

OpenAIInit(env, environ) == Constructed(OpenAIApiKey(env, environ))

InitConstruct ==
    /\ EngineIdle
    /\ CliIdle
    /\ PairIdle
    /\ fs = ProjectFiles
    /\ syslog = <<>>
    /\ last = NoCall

ConstructGemini ==
    /\ last = NoCall
    /\ \E env \in OptionsEnvs, environ \in Environs :
          last' = Called("GeminiAgentEngine", <<env, environ>>, GeminiInit(env, environ))
    /\ UNCHANGED <<engineVars, fs, syslog, cliVars, pairVars>>

ConstructOpenAI ==
    /\ last = NoCall
    /\ \E env \in OptionsEnvs, environ \in Environs :
          last' = Called("OpenAIAgentEngine", <<env, environ>>, OpenAIInit(env, environ))
    /\ UNCHANGED <<engineVars, fs, syslog, cliVars, pairVars>>

NextConstruct == ConstructGemini \/ ConstructOpenAI

SpecConstruct == InitConstruct /\ [][NextConstruct]_vars

\* none of the names the constructor accepts holds a non-empty value
NoKeyAvailable(names, env, environ) ==
    \A n \in names :
        /\ ~Truthy(EnvGet(OrEmptyDict(env), "env", n))
        /\ ~Truthy(EnvGet(environ, "environ", n))

GeminiKeyNames == {"GEMINI_API_KEY", "GOOGLE_API_KEY"}

OpenAIKeyNames == {"ZAI_API_KEY", "OPENAI_API_KEY"}

AcceptedNames(op) == IF op = "GeminiAgentEngine" THEN GeminiKeyNames ELSE OpenAIKeyNames

\* C12 as claimed: constructing either API engine with none of its accepted API-key
\* variables available fails at construction; no instance is created with a
\* placeholder credential.  Refuted for the OpenAI engine.
C12_NoKeyFailsConstruction ==
    (last.op \in {"GeminiAgentEngine", "OpenAIAgentEngine"}
        /\ NoKeyAvailable(AcceptedNames(last.op), last.args[1], last.args[2])) =>
            last.raised # ""

\* C12 amended: with none of its accepted variables available the Gemini constructor
\* fails (ValueError) and creates no instance, while the OpenAI constructor succeeds
\* and the instance holds the placeholder credential "dummy-key"; with a variable
\* available the instance of either engine holds a value of an accepted variable.
C12_NoKeyGeminiFailsOpenAIDummy ==
    /\ (last.op = "GeminiAgentEngine"
          /\ NoKeyAvailable(GeminiKeyNames, last.args[1], last.args[2])) =>
              last.raised = "ValueError" /\ last.type = "none"
    /\ (last.op = "OpenAIAgentEngine"
          /\ NoKeyAvailable(OpenAIKeyNames, last.args[1], last.args[2])) =>
              last.raised = "" /\ last.value = <<"dummy-key">>
    /\ (last.op \in {"GeminiAgentEngine", "OpenAIAgentEngine"}
          /\ ~NoKeyAvailable(AcceptedNames(last.op), last.args[1], last.args[2])) =>
              /\ last.raised = ""
              /\ Len(last.value) = 2
              /\ last.value[2] \in AcceptedNames(last.op)

\* C12 witness: the OpenAI constructor was called with every key absent or empty
C12_Witness ==
    /\ last.op = "OpenAIAgentEngine"
    /\ last.args[1] # NoneVal
    /\ last.args[1]["OPENAI_API_KEY"] = "empty"
    /\ NoKeyAvailable(OpenAIKeyNames, last.args[1], last.args[2])

(***************************************************************************)
(* CustomCliAgentEngine: the command line.  Templates and arguments are    *)
(* sequences of characters; a placeholder such as {sessionId} is one       *)
(* token.                                                                  *)
(***************************************************************************)
\* "{sessionId}"
SessionPlaceholder ==
    <<"{sessionId}">>

\* "-s"
ShortSessionFlag ==
    <<"-", "s">>

\* "--session-id"
LongSessionFlag ==
    <<"-", "-", "s", "e", "s", "s", "i", "o", "n", "-", "i", "d">>

\* "--spec-dir"
SpecDirFlag ==
    <<"-", "-", "s", "p", "e", "c", "-", "d", "i", "r">>

\* "--project-dir"
ProjectDirFlag ==
    <<"-", "-", "p", "r", "o", "j", "e", "c", "t", "-", "d", "i", "r">>

\* "stream-json"
StreamJson ==
    <<"s", "t", "r", "e", "a", "m", "-", "j", "s", "o", "n">>

\* "--output-format json"
OutputFormatJson ==
    <<"-", "-", "o", "u", "t", "p", "u", "t", "-", "f", "o", "r", "m", "a", "t", " ",
      "j", "s", "o", "n">>

\* " -s {sessionId}"
AutoInjected ==
    <<" ", "-", "s", " ", "{sessionId}">>

\* the default template: droid exec --model {model} --output-format stream-json --input-format stream-json --auto low
TemplateDefault ==
    <<"d", "r", "o", "i", "d", " ", "e", "x", "e", "c", " ", "-", "-", "m", "o", "d",
      "e", "l", " ", "{model}", " ", "-", "-", "o", "u", "t", "p", "u", "t", "-", "f",
      "o", "r", "m", "a", "t", " ", "s", "t", "r", "e", "a", "m", "-", "j", "s", "o",
      "n", " ", "-", "-", "i", "n", "p", "u", "t", "-", "f", "o", "r", "m", "a", "t",
      " ", "s", "t", "r", "e", "a", "m", "-", "j", "s", "o", "n", " ", "-", "-", "a",
      "u", "t", "o", " ", "l", "o", "w">>

\* no session flag or placeholder, a spec-directory flag: cli --spec-dir {specDir} --output-format json
TemplateSpecDir ==
    <<"c", "l", "i", " ", "-", "-", "s", "p", "e", "c", "-", "d", "i", "r", " ",
      "{specDir}", " ", "-", "-", "o", "u", "t", "p", "u", "t", "-", "f", "o", "r",
      "m", "a", "t", " ", "j", "s", "o", "n">>

\* a session flag with an unquoted placeholder: cli --session-id {sessionId} go
TemplateUnquoted ==
    <<"c", "l", "i", " ", "-", "-", "s", "e", "s", "s", "i", "o", "n", "-", "i", "d",
      " ", "{sessionId}", " ", "g", "o">>

\* a session flag with a quoted placeholder: cli --session-id "{sessionId}" go
TemplateQuoted ==
    <<"c", "l", "i", " ", "-", "-", "s", "e", "s", "s", "i", "o", "n", "-", "i", "d",
      " ", "\"", "{sessionId}", "\"", " ", "g", "o">>

\* the session placeholder as the value of another flag: cli --resume "{sessionId}"
TemplateResume ==
    <<"c", "l", "i", " ", "-", "-", "r", "e", "s", "u", "m", "e", " ", "\"",
      "{sessionId}", "\"">>

\* neither flags nor placeholders: cli run
TemplatePlain ==
    <<"c", "l", "i", " ", "r", "u", "n">>

Templates ==
    {TemplateDefault, TemplateSpecDir, TemplateUnquoted,
     TemplateQuoted, TemplateResume, TemplatePlain}

\* options.model, as characters
ModelName == <<"m">>

\* the value format() puts in place of a placeholder
Placeholders == {"{model}", "{projectDir}", "{specDir}", "{sessionId}"}

FieldValue(field, model, projectDir, specDir, sessionId) ==
    IF field = "{model}" THEN model
    ELSE IF field = "{projectDir}" THEN projectDir
    ELSE IF field = "{specDir}" THEN specDir
    ELSE sessionId

\* template.format(...): every placeholder is replaced by its value
RECURSIVE Format(_, _, _, _, _)
Format(tmpl, model, projectDir, specDir, sessionId) ==
    LET at == {i \in 1..Len(tmpl) : tmpl[i] \in Placeholders}
    IN  IF at = {} THEN tmpl
        ELSE LET i == CHOOSE k \in at : \A m \in at : k <= m
             IN  SubSeq(tmpl, 1, i - 1)
                   \o FieldValue(tmpl[i], model, projectDir, specDir, sessionId)
                   \o Format(SubSeq(tmpl, i + 1, Len(tmpl)), model, projectDir, specDir,
                             sessionId)

\* the position of the first space of s that is outside double quotes
NextBreak(s) ==
    LET quotesBefore(i) == Cardinality({k \in 1..(i - 1) : s[k] = "\""})
        at == {i \in 1..Len(s) : s[i] = " " /\ quotesBefore(i) % 2 = 0}
    IN  IF at = {} THEN Len(s) + 1 ELSE CHOOSE k \in at : \A m \in at : k <= m

Unquote(w) == SelectSeq(w, LAMBDA c : c # "\"")

\* shlex.split: words are separated by spaces; double quotes group a word, and a
\* pair of quotes with nothing inside is an empty word
RECURSIVE ShlexSplit(_)
ShlexSplit(s) ==
    IF s = <<>> THEN <<>>
    ELSE LET b == NextBreak(s)
             w == SubSeq(s, 1, b - 1)
         IN  (IF w = <<>> THEN <<>> ELSE <<Unquote(w)>>)
               \o ShlexSplit(SubSeq(s, b + 1, Len(s)))

\* the flags whose empty value is cleaned up
EmptyValueFlags == {LongSessionFlag, ShortSessionFlag, SpecDirFlag, ProjectDirFlag}

\* the cleanup loop: a listed flag followed by an empty word is dropped with it
RECURSIVE FilterArgs(_, _, _)
FilterArgs(args, i, skip_next) ==
    IF i > Len(args) THEN <<>>
    ELSE IF skip_next THEN FilterArgs(args, i + 1, FALSE)
    ELSE IF args[i] \in EmptyValueFlags /\ i < Len(args) /\ args[i + 1] = <<>>
    THEN FilterArgs(args, i + 1, TRUE)
    ELSE <<args[i]>> \o FilterArgs(args, i + 1, FALSE)

\* "{sessionId}" in template or "-s" in template or "--session-id" in template
HasSessionFlag(tmpl) ==
    \/ Contains(tmpl, SessionPlaceholder)
    \/ Contains(tmpl, ShortSessionFlag)
    \/ Contains(tmpl, LongSessionFlag)

\* auto-inject the session id if it is known and the template does not name it
Inject(tmpl, sid) ==
    IF Truthy(sid) /\ ~HasSessionFlag(tmpl)
    THEN tmpl \o AutoInjected ELSE tmpl

\* x or "."
OrDot(x) == IF Truthy(x) THEN x ELSE <<".">>

\* self.session_id or ""
OrEmptyStr(x) == IF Truthy(x) THEN x ELSE <<>>

\* receive_response up to the try block: the command string and the final arguments
BuildCommand(tmpl0, sid, cwd, sdir) ==
    LET tmpl == Inject(tmpl0, sid)
        cmd_str  == Format(tmpl, ModelName, OrDot(cwd), OrDot(sdir),
                           OrEmptyStr(sid))
    IN  [template |-> tmpl,
         cmd_str |-> cmd_str,
         args |-> FilterArgs(ShlexSplit(cmd_str), 1, FALSE),
         is_streaming |-> Contains(tmpl, StreamJson)]

(***************************************************************************)
(* CustomCliAgentEngine: construction, the session marker and              *)
(* receive_response driving one child process.                             *)
(***************************************************************************)
MaxLines == 2

\* options.spec_dir
SpecDirs == {NoneVal, <<"d">>}

\* what the marker file holds when the first adapter is constructed
MarkerContents == {NoneVal, <<"s", "0", "\n">>}

\* options.cwd
CliOptionsCwd == NoneVal

\* what the caller submits: a message with a line break in it, then another one,
\* and so on in turn
CliMessages(k) == {IF k % 2 = 1 THEN <<"q", "\n">> ELSE <<"r">>}

ReadOutcomes == {"ok", "oserror"}

\* _load_session_id: the stripped text of the marker file, when there is one and it
\* can be read
LoadSessionId(sdir, file, read) ==
    IF ~Truthy(sdir) THEN NoneVal
    ELSE IF file = NoneVal THEN NoneVal
    ELSE IF read = "ok" THEN Strip(file)
    ELSE NoneVal

\* the call of the constructor, with the outcome of reading the marker file
CliInitCall(read) ==
    [op |-> "CustomCliAgentEngine", args |-> <<read>>, raised |-> "",
     value |-> <<>>, type |-> "instance"]

WriteOutcomes == {"ok", "oserror"}

\* a _save_session_id that does nothing
SaveSessionIdNever(sdir, sid, file, new_id, write) ==
    [session_id |-> sid, marker |-> file, wrote |-> "none"]

\* _save_session_id: nothing without a spec directory or an identifier; else the
\* field is set and the file written, a failure of the write being swallowed
SaveSessionId(sdir, sid, file, new_id, write) ==
    IF ~Truthy(sdir) \/ ~Truthy(new_id)
    THEN [session_id |-> sid, marker |-> file, wrote |-> "none"]
    ELSE [session_id |-> new_id,
          marker |-> IF write = "ok" THEN new_id ELSE file,
          wrote |-> IF write = "ok" THEN "ok" ELSE "failed"]

\* the lines the child process writes to its standard output
OutputLines ==
    {<<"{", "session_id:s1", ",", "content:hi", "}", "\n">>,
     <<"{", "session_id:s2 ", "}", "\n">>,
     <<"{", "session_id:", ",", "content:hi", "}", "\n">>,
     <<"{", "content:hi", "}", "\n">>,
     <<"null", "\n">>,
     <<"oops", "\n">>,
     <<"\n">>}

\* an except clause that lets every exception through
CatchesNothing(exc) == FALSE

\* except Exception as e
CatchesException(exc) == TRUE

\* except json.JSONDecodeError
CatchesJsonDecodeError(exc) == exc = "JSONDecodeError"

\* data.get("content") or data.get("message") or data.get("text")
SurfacedContent(data) ==
    PyOr(PyOr(Get(data, "content", NoneVal), Get(data, "message", NoneVal)),
         Get(data, "text", NoneVal))

\* the body of the read loop for one non-empty line: the identifier to save (None
\* when there is nothing to save), the texts to yield, the exception that leaves it
HandleLine(cmd, line_str) ==
    IF cmd.is_streaming \/ Contains(cmd.template, OutputFormatJson)
    THEN LET p == ParseArguments(line_str)
         IN  IF ~p.valid
             THEN IF CatchesJsonDecodeError("JSONDecodeError")
                  THEN [save |-> NoneVal, has_id |-> FALSE, yield |-> <<line_str>>, exc |-> ""]
                  ELSE [save |-> NoneVal, has_id |-> FALSE, yield |-> <<>>,
                        exc |-> "JSONDecodeError"]
             ELSE IF ~p.mapping
             THEN [save |-> NoneVal, has_id |-> FALSE, yield |-> <<line_str>>, exc |-> ""]
             ELSE [save |-> Get(p.args, "session_id", NoneVal),
                   has_id |-> "session_id" \in DOMAIN p.args,
                   yield |-> IF Truthy(SurfacedContent(p.args))
                             THEN <<SurfacedContent(p.args)>> ELSE <<>>,
                   exc |-> ""]
    ELSE [save |-> NoneVal, has_id |-> FALSE, yield |-> <<line_str>>, exc |-> ""]

\* what the caller's `async with` block has come to
Scopes == {"outside", "inside"}

InitCli ==
    /\ engine = "custom_cli"
    /\ pc = "idle"
    /\ system_prompt = ""
    /\ max_turns = 1
    /\ history = <<>>
    /\ chat_history = <<>>
    /\ tool_calls = <<>>
    /\ current_content = <<>>
    /\ idx = 1
    /\ pending = <<>>
    /\ current_response = "none"
    /\ events = <<>>
    /\ received = <<>>
    /\ chunks = 0
    /\ queries = 0
    /\ fs = ProjectFiles
    /\ syslog = <<>>
    /\ template \in Templates
    /\ spec_dir \in SpecDirs
    /\ marker \in IF spec_dir = NoneVal THEN {NoneVal} ELSE MarkerContents
    /\ \E read \in IF marker = NoneVal THEN {"ok"} ELSE ReadOutcomes :
          /\ session_id = LoadSessionId(spec_dir, marker, read)
          /\ last = CliInitCall(read)
    /\ cli_prompt = <<>>
    /\ cli_command = NoCommand
    /\ process = NoProcess
    /\ scope \in Scopes
    /\ cleanups = 0
    /\ PairIdle

cliFrame == <<system_prompt, max_turns, history, chat_history, tool_calls,
              current_content, idx, pending, current_response, fs, syslog, last,
              template, spec_dir, pairVars>>

\* the exception exc is raised inside the try block of receive_response
Excepted(exc) ==
    IF CatchesException(exc)
    THEN /\ events' = Append(events, Ev("emit", 0, "error", "",
                                        <<"Error running custom CLI: ", exc>>))
         /\ pc' = "err"
    ELSE /\ events' = Append(events, Ev("raise", 0, "", "", <<exc>>))
         /\ pc' = "raised"

\* query: the prompt is stored for the next receive_response
CliQuery ==
    /\ engine = "custom_cli"
    /\ scope \in Scopes
    /\ pc = "idle"
    /\ queries < MaxQueries
    /\ \A i \in 1..Len(events) : events[i].e = "query"
    /\ \E m \in CliMessages(queries + 1) :
          /\ cli_prompt' = m
          /\ events' = Append(events, Ev("query", 0, "", "", m))
    /\ queries' = queries + 1
    /\ UNCHANGED <<engine, pc, received, chunks, session_id, marker, cli_command,
                   process, scope, cleanups, cliFrame>>

\* receive_response is started: the command is built and announced (first yield)
CliReceiveResponse ==
    /\ engine = "custom_cli"
    /\ scope \in Scopes
    /\ pc = "idle"
    /\ events # <<>>
    /\ \A i \in 1..Len(events) : events[i].e = "query"
    /\ cli_command' = BuildCommand(template, session_id, CliOptionsCwd, spec_dir)
    /\ events' = Append(events, Ev("emit", 0, "executing", "", cli_command'.cmd_str))
    /\ process' = NoProcess
    /\ pc' = "cmd"
    /\ UNCHANGED <<engine, received, chunks, queries, session_id, marker, cli_prompt,
                   scope, cleanups, cliFrame>>

SpawnOutcomes == {"ok", "spawn_fails", "stdin_fails"}

\* json.dumps of a string: a line break becomes the two characters \n
JsonEscape(str) == [i \in 1..Len(str) |-> IF str[i] = "\n" THEN "\\n" ELSE str[i]]

\* an input that holds the prompt as it is after "content:"
InputDataRaw(prompt) ==
    <<"{", "role:user", ",", "content:">> \o prompt \o <<"}", "\n">>

\* json.dumps({"role": "user", "content": self.prompt}) + "\n"
InputData(prompt) ==
    <<"{", "role:user", ",", "content:">> \o JsonEscape(prompt) \o <<"}", "\n">>

\* asyncio.create_subprocess_exec(*args, ...) with its pipes
Spawned(args, is_streaming) ==
    [state |-> "running", args |-> args,
     stdin |-> IF is_streaming THEN "open" ELSE "none", stdin_data |-> <<>>,
     stdout |-> "open", stderr |-> "open",
     returncode |-> NoneVal, stderr_data |-> NoneVal]

\* the caller resumes the generator: the child is spawned and given the prompt
CliSpawn ==
    /\ engine = "custom_cli"
    /\ scope \in Scopes
    /\ pc = "cmd"
    /\ \E o \in SpawnOutcomes :
          LET args == IF cli_command.is_streaming THEN cli_command.args
                      ELSE Append(cli_command.args, cli_prompt)
          IN  IF o = "spawn_fails"
              THEN UNCHANGED process /\ Excepted("FileNotFoundError")
              ELSE IF o = "stdin_fails" /\ cli_command.is_streaming
              THEN /\ process' = Spawned(args, TRUE)
                   /\ Excepted("BrokenPipeError")
              ELSE /\ process' = [Spawned(args, cli_command.is_streaming) EXCEPT
                                     !.stdin = IF cli_command.is_streaming
                                               THEN "closed" ELSE "none",
                                     !.stdin_data = IF cli_command.is_streaming
                                                    THEN InputData(cli_prompt)
                                                    ELSE <<>>]
                   /\ events' = Append(events, Ev("spawn", 0, "", "", <<>>))
                   /\ pc' = "read"
    /\ UNCHANGED <<engine, received, chunks, queries, session_id, marker, cli_prompt,
                   cli_command, scope, cleanups, cliFrame>>

\* one line is read from the child's standard output and handled; received holds
\* the last line whose identifier was written or failed to be written, followed by
\* a later line with an identifier for which no write was attempted
CliReadLine ==
    /\ engine = "custom_cli"
    /\ scope \in Scopes
    /\ pc \in {"read", "line"}
    /\ chunks < MaxLines
    /\ chunks' = chunks + 1
    /\ \E line \in OutputLines, write \in WriteOutcomes :
          LET line_str == Strip(line)
              h == HandleLine(cli_command, line_str)
              s == SaveSessionId(spec_dir, session_id, marker, h.save, write)
              k == chunks + 1
              saved == IF h.has_id
                       THEN <<Ev("save", k, s.wrote, "", h.save)>> ELSE <<>>
              emitted == [i \in 1..Len(h.yield) |-> Ev("emit", k, "line", "", h.yield[i])]
          IN  IF line_str = <<>>
              THEN /\ pc' = "read"
                   /\ UNCHANGED <<events, received, session_id, marker>>
              ELSE /\ received' =
                        IF ~h.has_id THEN received
                        ELSE IF s.wrote # "none"
                        THEN <<[id |-> h.save, wrote |-> s.wrote]>>
                        ELSE SelectSeq(received, LAMBDA r : r.wrote # "none")
                               \o <<[id |-> h.save, wrote |-> s.wrote]>>
                   /\ IF h.has_id
                      THEN session_id' = s.session_id /\ marker' = s.marker
                      ELSE UNCHANGED <<session_id, marker>>
                   /\ IF h.exc # ""
                      THEN Excepted(h.exc)
                      ELSE /\ events' = events \o <<Ev("line", k, "", "", line_str)>>
                                           \o saved \o emitted
                           /\ pc' = IF h.yield = <<>> THEN "read" ELSE "line"
    /\ UNCHANGED <<engine, queries, cli_prompt, cli_command, process, scope, cleanups,
                   cliFrame>>

ReadFailures == {"ConnectionResetError", "UnicodeDecodeError"}

\* reading or decoding a line fails
CliReadFails ==
    /\ engine = "custom_cli"
    /\ scope \in Scopes
    /\ pc \in {"read", "line"}
    /\ chunks < MaxLines
    /\ chunks' = chunks + 1
    /\ \E exc \in ReadFailures : Excepted(exc)
    /\ UNCHANGED <<engine, received, queries, session_id, marker, cli_prompt,
                   cli_command, process, scope, cleanups, cliFrame>>

ReturnCodes == {0, 1}

StderrTexts == {<<>>, <<"boom">>}

\* end of output: the child is awaited; a failure with error text is reported, and
\* otherwise the generator returns
CliEof ==
    /\ engine = "custom_cli"
    /\ scope \in Scopes
    /\ pc \in {"read", "line"}
    /\ \E rc \in ReturnCodes, err \in StderrTexts :
          /\ process' = [process EXCEPT !.state = "exited", !.returncode = rc,
                                        !.stdout = "closed", !.stderr = "closed",
                                        !.stderr_data = IF rc # 0 THEN err ELSE NoneVal]
          /\ IF rc # 0 /\ err # <<>>
             THEN /\ events' = events \o <<Ev("exit", rc, "", "", err),
                                          Ev("emit", 0, "stderr", "",
                                             <<"\n[CLI Error]: ">> \o Strip(err))>>
                  /\ pc' = "err"
             ELSE /\ events' = <<>>
                  /\ pc' = "idle"
    /\ UNCHANGED <<engine, received, chunks, queries, session_id, marker, cli_prompt,
                   cli_command, scope, cleanups, cliFrame>>

\* the caller resumes after the last envelope: the generator returns
CliFinish ==
    /\ engine = "custom_cli"
    /\ scope \in Scopes
    /\ pc = "err"
    /\ pc' = "idle"
    /\ events' = <<>>
    /\ UNCHANGED <<engine, received, chunks, queries, session_id, marker,
                   cli_prompt, cli_command, process, scope, cleanups, cliFrame>>

\* the caller stops consuming the envelope sequence: the generator stays suspended
CliAbandon ==
    /\ engine = "custom_cli"
    /\ scope = "outside"
    /\ pc \in {"cmd", "line", "err"}
    /\ pc' = "abandoned"
    /\ UNCHANGED <<engine, events, received, chunks, queries, session_id, marker,
                   cli_prompt, cli_command, process, scope, cleanups, cliFrame>>

\* CustomCliAgentEngine.cleanup: pass
Cleanup(proc) == proc

\* the caller releases the adapter outside any scope
CliRelease ==
    /\ engine = "custom_cli"
    /\ scope = "outside"
    /\ pc \in {"idle", "abandoned"}
    /\ cleanups = 0
    /\ cleanups' = cleanups + 1
    /\ process' = Cleanup(process)
    /\ UNCHANGED <<engine, pc, events, received, chunks, queries, session_id, marker,
                   cli_prompt, cli_command, scope, cliFrame>>

\* how the `async with` block is left
ExitPaths == {"normal", "exception", "abandoned"}

\* an __aexit__ that cleans up only when the block ended without an exception
AexitOnlyOnSuccess(path) == IF path = "exception" THEN 0 ELSE 1

\* __aexit__(exc_type, exc_val, exc_tb): await self.cleanup(), whatever the exit
Aexit(path) == 1

\* the `async with engine:` block is left: after the turn, by an exception raised in
\* the block (by the caller or out of the generator), or with the sequence abandoned
ScopeExit ==
    /\ engine = "custom_cli"
    /\ scope = "inside"
    /\ \E path \in ExitPaths :
          /\ path = "normal" => pc = "idle"
          /\ path = "abandoned" => pc \in {"cmd", "line", "err"}
          /\ path = "exception" => pc \in {"idle", "cmd", "line", "err", "raised"}
          /\ scope' = path
          /\ pc' = IF pc \in {"cmd", "line", "err"} THEN "abandoned" ELSE pc
          /\ cleanups' = cleanups + Aexit(path)
          /\ process' = IF Aexit(path) > 0 THEN Cleanup(process) ELSE process
    /\ UNCHANGED <<engine, events, received, chunks, queries, session_id, marker,
                   cli_prompt, cli_command, cliFrame>>

\* another adapter is constructed on the same spec directory
CliConstruct ==
    /\ engine = "custom_cli"
    /\ scope = "outside"
    /\ pc = "idle"
    /\ events = <<>>
    /\ cli_command # NoCommand
    /\ \E read \in IF marker = NoneVal THEN {"ok"} ELSE ReadOutcomes :
          /\ session_id' = LoadSessionId(spec_dir, marker, read)
          /\ last' = CliInitCall(read)
    /\ cli_prompt' = <<>>
    /\ cli_command' = NoCommand
    /\ process' = NoProcess
    /\ cleanups' = 0
    /\ UNCHANGED <<engine, pc, events, received, chunks, queries, marker, scope,
                   system_prompt, max_turns, history, chat_history, tool_calls,
                   current_content, idx, pending, current_response, fs, syslog,
                   template, spec_dir, pairVars>>

NextCli ==
    \/ CliQuery
    \/ CliReceiveResponse
    \/ CliSpawn
    \/ CliReadLine
    \/ CliReadFails
    \/ CliEof
    \/ CliFinish
    \/ CliAbandon
    \/ CliRelease
    \/ ScopeExit
    \/ CliConstruct

SpecCli == InitCli /\ [][NextCli]_vars


(***************************************************************************)
(* Claims about CustomCliAgentEngine, checked under SpecCli.               *)
(***************************************************************************)
\* the words of a template, the placeholders left in place
TemplateWords(tmpl) == ShlexSplit(tmpl)

\* the template names the session: it holds the session placeholder, or one of its
\* words is a session flag
NamesSession(tmpl) ==
    \/ Contains(tmpl, SessionPlaceholder)
    \/ \E i \in 1..Len(TemplateWords(tmpl)) :
          TemplateWords(tmpl)[i] \in {ShortSessionFlag, LongSessionFlag}

\* a session flag of the argument list is immediately followed by the value v
SessionFlagWithValue(args, v) ==
    \E i \in 1..(Len(args) - 1) :
       args[i] \in {ShortSessionFlag, LongSessionFlag} /\ args[i + 1] = v

\* the word is a flag
IsFlag(w) == w # <<>> /\ w[1] = "-"

\* C13: when the template holds neither a session placeholder nor a session flag
\* and a non-empty session identifier was loaded from the marker, the command line
\* that was built holds the session flag immediately followed by that identifier
C13_SessionFlagInjected ==
    (pc = "cmd" /\ Truthy(session_id) /\ ~NamesSession(template)) =>
        SessionFlagWithValue(cli_command.args, session_id)

\* C15: the argument list that was built holds no flag followed by an empty value,
\* and with no known session identifier it holds no session flag at all
C15_NoFlagWithEmptyValue ==
    pc = "cmd" =>
        /\ \A i \in 1..(Len(cli_command.args) - 1) :
              ~(IsFlag(cli_command.args[i]) /\ cli_command.args[i + 1] = <<>>)
        /\ ~Truthy(session_id) =>
              \A i \in 1..Len(cli_command.args) :
                 cli_command.args[i] \notin {ShortSessionFlag, LongSessionFlag}


\* the most recent output line that held a session identifier
LastIdLine == received[Len(received)]

\* the most recent line whose identifier the adapter tried to write
Attempts == SelectSeq(received, LAMBDA r : r.wrote # "none")

\* a newly constructed adapter that has not yet been used
FreshAdapter == pc = "idle" /\ cli_command = NoCommand /\ events = <<>>

\* the save of an identifier precedes every envelope of its line
SaveBeforeEnvelopes ==
    \A i, j \in 1..Len(events) :
       (events[i].e = "save" /\ events[j].e = "emit" /\ events[j].name = "line"
          /\ events[i].k = events[j].k) => i < j

EndsWithEnvelope(kind) ==
    /\ events' # <<>>
    /\ events'[Len(events')].e = "emit"
    /\ events'[Len(events')].name = kind

\* this step starts the child, fails in the spawn, the write or a read, or takes a
\* line that is not valid JSON in a JSON mode
SpawnStep == pc = "cmd" /\ pc' # "cmd" /\ pc' # "abandoned"

ReadStep == pc \in {"read", "line"} /\ chunks' = chunks + 1

BadJsonLineStep ==
    /\ ReadStep
    /\ Len(events') = Len(events) + 2
    /\ events'[Len(events) + 1].e = "line"
    /\ cli_command.is_streaming \/ Contains(cli_command.template, OutputFormatJson)
    /\ ~ParseArguments(events'[Len(events) + 1].content).valid

\* the child is awaited and has ended with a non-zero exit code
NonZeroExitStep ==
    /\ process.state = "running"
    /\ process'.state = "exited"
    /\ process'.returncode # 0

\* no step of receive_response lets an exception out, and a spawn or read step that
\* does not go on to read ends in the error envelope
FailuresBecomeEnvelopes ==
    /\ pc' # "raised"
    /\ (SpawnStep /\ pc' # "read") => (pc' = "err" /\ EndsWithEnvelope("error"))
    /\ (ReadStep /\ pc' \notin {"read", "line"}) =>
          (pc' = "err" /\ EndsWithEnvelope("error"))
    /\ BadJsonLineStep => (pc' = "line" /\ EndsWithEnvelope("line"))

\* C16 (as stated): no transport failure propagates an exception; a failing spawn,
\* write or read, a line that is not valid JSON and a non-zero exit code each give a
\* text envelope, the standard-error text for a non-zero exit
C16_TransportFailuresBecomeEnvelopes ==
    [][ /\ FailuresBecomeEnvelopes
        /\ NonZeroExitStep => (pc' = "err" /\ EndsWithEnvelope("stderr")) ]_vars

\* C16 (amended): as stated, except that a non-zero exit code gives the envelope
\* with the standard-error text only when that text is not empty; with no text the
\* sequence ends without a further envelope
C16_NonZeroExitNeedsStderrText ==
    [][ /\ FailuresBecomeEnvelopes
        /\ NonZeroExitStep =>
              IF process'.stderr_data # <<>>
              THEN /\ pc' = "err"
                   /\ EndsWithEnvelope("stderr")
                   /\ events'[Len(events')].content
                        = <<"\n[CLI Error]: ">> \o Strip(process'.stderr_data)
              ELSE pc' = "idle" /\ events' = <<>> ]_vars

\* C16 witness: the child ended with exit code 1 and the text boom on its standard
\* error, and the envelope with that text is the last one of the turn
C16_Witness ==
    /\ pc = "err"
    /\ process.state = "exited"
    /\ process.returncode = 1
    /\ events[Len(events)] = Ev("emit", 0, "stderr", "", <<"\n[CLI Error]: ", "boom">>)


\* C17: when the `async with` block has been left, on whichever path (after the
\* turn, by an exception, or with the envelope sequence abandoned), cleanup has been
\* invoked exactly once, and it is not invoked while the block is still running
C17_ReleaseOncePerScopeExit ==
    /\ scope \in ExitPaths => cleanups = 1
    /\ scope = "inside" => cleanups = 0

\* C17 witness: the block was left by an exception while the generator was
\* suspended after an output line, and cleanup ran once
C17_Witness ==
    /\ scope = "exception"
    /\ pc = "abandoned"
    /\ chunks > 0
    /\ cleanups = 1


\* the adapter holds a running child process or an open pipe to one
HoldsChild ==
    \/ process.state = "running"
    \/ "open" \in {process.stdin, process.stdout, process.stderr}

\* C18: once the caller has stopped consuming the envelope sequence and cleanup has
\* returned, the adapter holds no running child process and no open pipe to it
C18_NoChildAfterRelease ==
    (pc = "abandoned" /\ cleanups > 0) => ~HoldsChild


(***************************************************************************)
(* Two engine instances in one process.  Each operation is reduced to what *)
(* it does to the state another instance could see: the history, the       *)
(* credentials its requests are sent with, and the session identifier.     *)
(***************************************************************************)
Instances == {1, 2}

PairKinds == {"gemini", "openai", "custom_cli"}

\* the api keys and spec directories the instances are constructed with
PairKeys == {<<"k1">>, <<"k2">>}

PairSpecDirs == {<<"d">>, <<"e">>}

\* the session identifiers a backend reports
ReportedSessions == {<<"s", "1">>, <<"s", "2">>}

\* the operation op of instance i
PairCall(op, i) ==
    [op |-> op, args |-> <<i>>, raised |-> "", type |-> "none", value |-> <<>>]

InitPair ==
    /\ EngineIdle
    /\ CliIdle
    /\ fs = ProjectFiles
    /\ syslog = <<>>
    /\ last = NoCall
    /\ genai_config = NoneVal
    /\ instances = <<NoInstance, NoInstance>>
    /\ session_files = [d \in PairSpecDirs |-> NoneVal]
    /\ SdkIdle

\* __init__: the Gemini engine configures the google.generativeai module with its
\* key and builds a model that holds no client yet; the OpenAI engine builds its own
\* client; the subprocess engine loads the session identifier of its spec directory
PairInit(kind, opt) ==
    IF kind = "gemini"
    THEN [NoInstance EXCEPT !.kind = kind, !.api_key = opt]
    ELSE IF kind = "openai"
    THEN [NoInstance EXCEPT !.kind = kind, !.api_key = opt, !.client = opt,
                            !.history = <<"system">>]
    ELSE [NoInstance EXCEPT !.kind = kind, !.spec_dir = opt,
                            !.session_id = LoadSessionId(opt, session_files[opt], "ok")]

PairConstruct ==
    \E i \in Instances, kind \in PairKinds :
    \E opt \in IF kind = "custom_cli" THEN PairSpecDirs ELSE PairKeys :
       /\ instances[i].kind = "none"
       /\ instances' = [instances EXCEPT ![i] = PairInit(kind, opt)]
       /\ genai_config' = IF kind = "gemini" THEN opt ELSE genai_config
       /\ last' = PairCall("construct", i)
       /\ UNCHANGED <<engineVars, fs, syslog, cliVars, sdkVars, session_files>>

\* the instance can be operated on
Live(i) == instances[i].kind # "none" /\ ~instances[i].released

\* query: the Gemini chat session sends the message, its model taking a client
\* built from the module configuration if it has none; the OpenAI engine appends
\* the message to its history; the subprocess engine stores the prompt
PairQuery ==
    \E i \in Instances :
       /\ Live(i)
       /\ Len(instances[i].history) <= MaxQueries
       /\ instances' =
            [instances EXCEPT ![i] =
                IF @.kind = "gemini"
                THEN [@ EXCEPT !.client = IF @ = NoneVal THEN genai_config ELSE @,
                               !.history = Append(@, "user")]
                ELSE IF @.kind = "openai"
                THEN [@ EXCEPT !.history = Append(@, "user")]
                ELSE @]
       /\ last' = PairCall("query", i)
       /\ UNCHANGED <<engineVars, fs, syslog, cliVars, sdkVars, genai_config, session_files>>

\* set_system_prompt: the Gemini engine builds a new model, the history kept; the
\* OpenAI engine rewrites the system entry; the subprocess engine does nothing
PairSetSystemPrompt ==
    \E i \in Instances :
       /\ Live(i)
       /\ instances' =
            [instances EXCEPT ![i] =
                IF @.kind = "gemini" THEN [@ EXCEPT !.client = NoneVal]
                ELSE IF @.kind = "openai"
                THEN [@ EXCEPT !.history = [@ EXCEPT ![1] = "system2"]]
                ELSE @]
       /\ last' = PairCall("set_system_prompt", i)
       /\ UNCHANGED <<engineVars, fs, syslog, cliVars, sdkVars, genai_config, session_files>>

\* receive_response: the API engines record the reply; the subprocess engine saves
\* the session identifier its backend reports
PairReceiveResponse ==
    \E i \in Instances, id \in ReportedSessions, write \in WriteOutcomes :
       /\ Live(i)
       /\ Len(instances[i].history) <= MaxQueries
       /\ IF instances[i].kind = "custom_cli"
          THEN LET d == instances[i].spec_dir
                   s == SaveSessionId(d, instances[i].session_id, session_files[d],
                                      id, write)
               IN  /\ instances' = [instances EXCEPT ![i].session_id = s.session_id]
                   /\ session_files' = [session_files EXCEPT ![d] = s.marker]
          ELSE /\ instances[i].kind = "gemini" => instances[i].client # NoneVal
               /\ instances' = [instances EXCEPT ![i].history = Append(@, "model")]
               /\ UNCHANGED session_files
       /\ last' = PairCall("receive_response", i)
       /\ UNCHANGED <<engineVars, fs, syslog, cliVars, sdkVars, genai_config>>

\* cleanup
PairCleanup ==
    \E i \in Instances :
       /\ Live(i)
       /\ instances' = [instances EXCEPT ![i].released = TRUE]
       /\ last' = PairCall("cleanup", i)
       /\ UNCHANGED <<engineVars, fs, syslog, cliVars, sdkVars, genai_config, session_files>>

NextPair ==
    \/ PairConstruct
    \/ PairQuery
    \/ PairSetSystemPrompt
    \/ PairReceiveResponse
    \/ PairCleanup

SpecPair == InitPair /\ [][NextPair]_vars

\* what instance j can observe of its own state: its history, the credentials its
\* next request is sent with, and the session identifier it holds and would load
Observed(j) ==
    [history |-> instances[j].history,
     credentials |-> IF instances[j].kind = "gemini" /\ instances[j].client = NoneVal
                     THEN genai_config ELSE instances[j].client,
     session |-> IF instances[j].kind = "custom_cli"
                 THEN <<instances[j].session_id, session_files[instances[j].spec_dir]>>
                 ELSE NoneVal]

\* C19: an operation on one instance changes nothing that the other instance
\* observes: its history, its credentials, its session identifier
C19_InstancesIndependent ==
    [][\A j \in Instances :
          (instances[j].kind # "none" /\ last'.args # <<j>>) =>
              Observed(j)' = Observed(j)]_vars


(***************************************************************************)
(* The tool schemas the API engines register with their backends, built    *)
(* from options.allowed_tools.                                             *)
(***************************************************************************)
MaxTools == 2

\* the names options.allowed_tools is drawn from: the built-in tools and one that
\* no engine supports
ToolChoices == BuiltinTools \cup {"WebFetch"}

AllowedToolLists == UNION {[1..n -> ToolChoices] : n \in 0..MaxTools}

\* one registered schema: the tool, the names under "properties", and "required"
ToolSchema(name, properties, required) ==
    [name |-> name, properties |-> properties, required |-> required]

\* the branch of get_agent_allowed_tools for one name of the list
AgentAllowedTool(tool_name) ==
    IF tool_name = "Read"
    THEN <<ToolSchema("Read", <<"file_path", "start_line", "end_line">>, <<"file_path">>)>>
    ELSE IF tool_name = "Write"
    THEN <<ToolSchema("Write", <<"file_path", "content">>, <<"file_path", "content">>)>>
    ELSE IF tool_name = "Edit"
    THEN <<ToolSchema("Edit", <<"file_path", "target_content", "replacement_content">>,
                      <<"file_path", "target_content", "replacement_content">>)>>
    ELSE IF tool_name = "Glob"
    THEN <<ToolSchema("Glob", <<"pattern">>, <<"pattern">>)>>
    ELSE IF tool_name = "Grep"
    THEN <<ToolSchema("Grep", <<"query", "pattern">>, <<"query">>)>>
    ELSE IF tool_name = "Bash"
    THEN <<ToolSchema("Bash", <<"command">>, <<"command">>)>>
    ELSE <<>>

\* _initialize_model: get_agent_allowed_tools(self.options.allowed_tools)
RECURSIVE GetAgentAllowedTools(_)
GetAgentAllowedTools(allowed_tools_list) ==
    IF allowed_tools_list = <<>> THEN <<>>
    ELSE AgentAllowedTool(Head(allowed_tools_list))
           \o GetAgentAllowedTools(Tail(allowed_tools_list))

\* the branch of _configure_tools for one name of the list
ConfiguredTool(tool_name) ==
    IF tool_name = "Read"
    THEN <<ToolSchema("Read", <<"file_path", "start_line", "end_line">>, <<"file_path">>)>>
    ELSE IF tool_name = "Write"
    THEN <<ToolSchema("Write", <<"file_path", "content">>, <<"file_path", "content">>)>>
    ELSE IF tool_name = "Edit"
    THEN <<ToolSchema("Edit", <<"file_path", "target_content", "replacement_content">>,
                      <<"file_path", "target_content", "replacement_content">>)>>
    ELSE IF tool_name = "Glob"
    THEN <<ToolSchema("Glob", <<"pattern">>, <<"pattern">>)>>
    ELSE IF tool_name = "Grep"
    THEN <<ToolSchema("Grep", <<"query", "pattern">>, <<"query">>)>>
    ELSE IF tool_name = "Bash"
    THEN <<ToolSchema("Bash", <<"command">>, <<"command">>)>>
    ELSE <<>>

\* _configure_tools: the tools the model is rebuilt with at the first query
RECURSIVE GeminiTools(_)
GeminiTools(allowed_tools) ==
    IF allowed_tools = <<>> THEN <<>>
    ELSE ConfiguredTool(Head(allowed_tools)) \o GeminiTools(Tail(allowed_tools))

\* the branch of _get_openai_tools for one name of the list
OpenaiTool(name) ==
    IF name = "Read"
    THEN <<ToolSchema("Read", <<"file_path", "start_line", "end_line">>, <<"file_path">>)>>
    ELSE IF name = "Write"
    THEN <<ToolSchema("Write", <<"file_path", "content">>, <<"file_path", "content">>)>>
    ELSE IF name = "Edit"
    THEN <<ToolSchema("Edit", <<"file_path", "target_content", "replacement_content">>,
                      <<"file_path", "target_content", "replacement_content">>)>>
    ELSE IF name = "Glob"
    THEN <<ToolSchema("Glob", <<"pattern">>, <<"pattern">>)>>
    ELSE IF name = "Grep"
    THEN <<ToolSchema("Grep", <<"query", "pattern">>, <<"query">>)>>
    ELSE IF name = "Bash"
    THEN <<ToolSchema("Bash", <<"command">>, <<"command">>)>>
    ELSE <<>>

\* _get_openai_tools
RECURSIVE GetOpenaiTools(_)
GetOpenaiTools(allowed_tools) ==
    IF allowed_tools = <<>> THEN <<>>
    ELSE OpenaiTool(Head(allowed_tools)) \o GetOpenaiTools(Tail(allowed_tools))

\* the list a builder returns
Registered(tools) == [raised |-> "", type |-> "list", value |-> tools]

InitSchemas ==
    /\ EngineIdle
    /\ CliIdle
    /\ PairIdle
    /\ fs = ProjectFiles
    /\ syslog = <<>>
    /\ last = NoCall

InitializeModel ==
    /\ last = NoCall
    /\ \E l \in AllowedToolLists :
          last' = Called("_initialize_model", <<l>>, Registered(GetAgentAllowedTools(l)))
    /\ UNCHANGED <<engineVars, fs, syslog, cliVars, pairVars>>

ConfigureToolsCall ==
    /\ last = NoCall
    /\ \E l \in AllowedToolLists :
          last' = Called("_configure_tools", <<l>>, Registered(GeminiTools(l)))
    /\ UNCHANGED <<engineVars, fs, syslog, cliVars, pairVars>>

GetOpenaiToolsCall ==
    /\ last = NoCall
    /\ \E l \in AllowedToolLists :
          last' = Called("_get_openai_tools", <<l>>, Registered(GetOpenaiTools(l)))
    /\ UNCHANGED <<engineVars, fs, syslog, cliVars, pairVars>>

NextSchemas == InitializeModel \/ ConfigureToolsCall \/ GetOpenaiToolsCall

SpecSchemas == InitSchemas /\ [][NextSchemas]_vars

\* the parameter names the specification fixes for each tool
FixedParameters(name) ==
    IF name = "Read" THEN {"file_path", "start_line", "end_line"}
    ELSE IF name = "Write" THEN {"file_path", "content"}
    ELSE IF name = "Edit" THEN {"file_path", "target_content", "replacement_content"}
    ELSE IF name = "Glob" THEN {"pattern", "root_dir"}
    ELSE IF name = "Grep" THEN {"query", "pattern", "root_dir"}
    ELSE {"command"}

ParameterNames(schema) == {schema.properties[i] : i \in 1..Len(schema.properties)}

\* C20: in every list of schemas a builder registers, the parameter names of each
\* schema are exactly the fixed names of its tool
C20_SchemasHaveFixedNames ==
    last.op \in {"_initialize_model", "_configure_tools", "_get_openai_tools"} =>
        \A i \in 1..Len(last.value) :
           ParameterNames(last.value[i]) = FixedParameters(last.value[i].name)


\* the names of a sequence
Range(s) == {s[i] : i \in 1..Len(s)}

\* how many of the registered schemas are for the tool
TimesRegistered(tools, name) ==
    Cardinality({i \in 1..Len(tools) : tools[i].name = name})

\* C21: whatever the list of enabled names (repeated names, names outside the six
\* built-in tools), the registered tools hold each enabled built-in tool exactly
\* once and no tool that is not built in
C21_EachToolRegisteredOnce ==
    last.op \in {"_initialize_model", "_configure_tools", "_get_openai_tools"} =>
        /\ \A name \in Range(last.args[1]) \cap BuiltinTools :
              TimesRegistered(last.value, name) = 1
        /\ \A i \in 1..Len(last.value) : last.value[i].name \in BuiltinTools


(***************************************************************************)
(* Further claims about the engines (checked under Spec).                  *)
(***************************************************************************)
\* the events since the last request to the backend
RECURSIVE SinceRequest(_)
SinceRequest(evs) ==
    IF evs = <<>> \/ evs[Len(evs)].e = "request" THEN <<>>
    ELSE Append(SinceRequest(SubSeq(evs, 1, Len(evs) - 1)), evs[Len(evs)])

\* the text carried by the envelopes emitted for the deltas of the current pass
PassText ==
    LET evs == SelectSeq(SinceRequest(events), LAMBDA ev : ev.e = "text")
    IN  Flatten([i \in 1..Len(evs) |-> BlockTexts(evs[i].content)])

\* C22: in the OpenAI engine every delta with content gives one text envelope that
\* carries that text, so that while the stream of a pass is read the texts of the
\* envelopes emitted so far make up the content collected for the history, and the
\* assistant entry appended at the end of the stream holds that content
C22_TextDeltasReEmitted ==
    engine = "openai" =>
        /\ pc = "stream" => PassText = current_content
        /\ (pc \in {"tools", "idle"} /\ current_content # <<>>) =>
              \E i \in 1..Len(history) :
                 /\ history[i].role = "assistant"
                 /\ history[i].content = PassText


\* the tool-call requests the envelopes of the current turn presented to the caller
RequestsPresented ==
    LET evs == SelectSeq(events, LAMBDA ev : ev.e \in {"emit", "text"})
    IN  Flatten([i \in 1..Len(evs) |-> ToolUses(evs[i].content)])

\* C23: within a turn no two tool-call requests presented to the caller carry the
\* same identifier, and the identifier of every ToolOutcome envelope is that of the
\* call whose execution, in the same pass, produced it
C23_CallIdsUniqueInTurn ==
    /\ \A i, j \in 1..Len(RequestsPresented) :
          i # j => RequestsPresented[i].id # RequestsPresented[j].id
    /\ \A j \in 1..Len(events) :
          events[j].e = "outcome" =>
              \E i \in 1..(j - 1) :
                 /\ events[i].e = "exec"
                 /\ events[i].k = events[j].k
                 /\ events[i].id = events[j].id
                 /\ \A m \in (i + 1)..(j - 1) : events[m].e # "stream_end"


(***************************************************************************)
(* ClaudeAgentEngine: the engine that wraps the client of the managed      *)
(* runtime.  The client is an object of the claude_agent_sdk package; the  *)
(* model records the calls it receives and the messages it yields.         *)
(***************************************************************************)
MaxDelegated == 3

\* what a caller may submit, and the messages the client may yield
ClaudeMessages == {<<"q">>, <<"r">>}

SdkMessages == {"AssistantMessage", "ResultMessage"}

SdkCall(op, arg) == [op |-> op, arg |-> arg]

InitClaude ==
    /\ EngineIdle
    /\ CliIdle
    /\ fs = ProjectFiles
    /\ syslog = <<>>
    /\ last = NoCall
    /\ genai_config = NoneVal
    /\ instances = <<NoInstance, NoInstance>>
    /\ session_files = <<>>
    /\ claude = [calls |-> <<>>, yielded |-> <<>>, gen |-> "none"]
    /\ \E has \in BOOLEAN :
          sdk_client = [has_set_system_prompt |-> has, calls |-> <<>>,
                        yielded |-> <<>>]
    /\ pipes = NoPipes

claudeFrame == <<engineVars, fs, syslog, last, cliVars, genai_config, instances,
                 session_files, pipes>>

\* query: await self.client.query(message)
ClaudeQuery ==
    \E message \in ClaudeMessages :
       /\ Len(claude.calls) < MaxDelegated
       /\ claude' = [claude EXCEPT !.calls = Append(@, SdkCall("query", message))]
       /\ sdk_client' = [sdk_client EXCEPT
                            !.calls = Append(@, SdkCall("query", message))]
       /\ UNCHANGED claudeFrame

\* set_system_prompt: forwarded when the client has such a method
ClaudeSetSystemPrompt ==
    \E prompt \in Prompts :
       /\ Len(claude.calls) < MaxDelegated
       /\ claude' = [claude EXCEPT
                        !.calls = Append(@, SdkCall("set_system_prompt", prompt))]
       /\ sdk_client' =
             IF sdk_client.has_set_system_prompt
             THEN [sdk_client EXCEPT
                      !.calls = Append(@, SdkCall("set_system_prompt", prompt))]
             ELSE sdk_client
       /\ UNCHANGED claudeFrame

\* receive_response, up to the first message: a new generator over a new
\* client.receive_response()
ClaudeReceiveResponse ==
    /\ Len(claude.calls) < MaxDelegated
    /\ claude' = [calls |-> Append(claude.calls, SdkCall("receive_response", <<>>)),
                  yielded |-> <<>>, gen |-> "running"]
    /\ sdk_client' = [sdk_client EXCEPT
                         !.calls = Append(@, SdkCall("receive_response", <<>>)),
                         !.yielded = <<>>]
    /\ UNCHANGED claudeFrame

\* one step of `async for msg in self.client.receive_response(): yield msg`: the
\* client yields a message and the engine yields it, or the client's stream ends or
\* raises and so does the engine's
ClaudeAnextDropsResult ==
    /\ claude.gen = "running"
    /\ \/ \E msg \in SdkMessages :
             /\ Len(claude.yielded) < MaxChunks
             /\ sdk_client' = [sdk_client EXCEPT !.yielded = Append(@, msg)]
             /\ claude' = IF msg = "ResultMessage" THEN claude
                          ELSE [claude EXCEPT !.yielded = Append(@, msg)]
       \/ \E how \in {"done", "raised"} :
             /\ claude' = [claude EXCEPT !.gen = how]
             /\ UNCHANGED sdk_client
    /\ UNCHANGED claudeFrame

ClaudeAnext ==
    /\ claude.gen = "running"
    /\ \/ \E msg \in SdkMessages :
             /\ Len(claude.yielded) < MaxChunks
             /\ sdk_client' = [sdk_client EXCEPT !.yielded = Append(@, msg)]
             /\ claude' = [claude EXCEPT !.yielded = Append(@, msg)]
       \/ \E how \in {"done", "raised"} :
             /\ claude' = [claude EXCEPT !.gen = how]
             /\ UNCHANGED sdk_client
    /\ UNCHANGED claudeFrame

\* cleanup, called directly or by __aexit__: self.client is set by __init__ and is
\* an object, so the call is always forwarded
ClaudeCleanup ==
    /\ Len(claude.calls) < MaxDelegated
    /\ claude' = [claude EXCEPT !.calls = Append(@, SdkCall("cleanup", <<>>))]
    /\ sdk_client' = [sdk_client EXCEPT !.calls = Append(@, SdkCall("cleanup", <<>>))]
    /\ UNCHANGED claudeFrame

NextClaude ==
    \/ ClaudeQuery
    \/ ClaudeSetSystemPrompt
    \/ ClaudeReceiveResponse
    \/ ClaudeAnext
    \/ ClaudeCleanup

SpecClaude == InitClaude /\ [][NextClaude]_vars

\* the calls of a log other than set_system_prompt
Delegated(calls) == SelectSeq(calls, LAMBDA c : c.op # "set_system_prompt")

\* C24: the engine of the managed runtime is a delegate: the client has received
\* the submits, the response requests and the releases made on the engine, each
\* once, in the same order and with the same message, and the engine has yielded
\* exactly the messages the client yielded, in the same order
C24_PureDelegate ==
    /\ Delegated(sdk_client.calls) = Delegated(claude.calls)
    /\ claude.yielded = sdk_client.yielded

\* a submit, then a response of two different messages, then a release
C24_Witness ==
    /\ Len(claude.calls) = 3
    /\ claude.calls[1] = SdkCall("query", <<"r">>)
    /\ claude.calls[2].op = "receive_response"
    /\ claude.calls[3].op = "cleanup"
    /\ sdk_client.calls[3].op = "cleanup"
    /\ claude.yielded = <<"AssistantMessage", "ResultMessage">>


(***************************************************************************)
(* Further claims about the built-in tools (checked under SpecTools).      *)
(***************************************************************************)
\* the call reported success
Succeeded(call, text) == call.raised = "" /\ call.type = "str" /\ IsPrefix(text, call.value)

\* C25: a Write that succeeded, followed by a Read of the same path with no line
\* range, returns exactly the content written, whatever its characters
C25_WriteThenReadRoundTrip ==
    [][(/\ last.op = "Write"
        /\ Succeeded(last, <<"Successfully wrote to ">>)
        /\ last'.op = "Read"
        /\ last'.args = <<last.args[1], <<>>, <<>>>>)
       => (last'.raised = "" /\ last'.value = last.args[2])]_vars


\* C26: an Edit of a readable text file with a target that does not occur in the
\* file returns the target-not-found error and leaves the file system as it was,
\* and so does the same Edit made again
C26_EditNotFoundChangesNothing ==
    [][(/\ last'.op = "Edit"
        /\ Stat(fs, last'.args[1]).kind = "file"
        /\ ~Contains(Stat(fs, last'.args[1]).data, last'.args[2]))
       => LET again == edit_file(fs', last'.args[1], last'.args[2], last'.args[3])
          IN  /\ last'.raised = ""
              /\ last'.value = <<"Error: Target content not found in ">> \o last'.args[1]
              /\ fs' = fs
              /\ again.value = last'.value
              /\ again.fs = fs]_vars


\* the entries Grep owes for the files found: those of the files that can be read
\* and decoded, in the order the files are found
EntriesOwed(f, query, pattern, root_dir) ==
    LET ms == RGlob(f, pattern, root_dir)
    IN  Flatten([i \in 1..Len(ms) |->
                    IF f[ms[i]].kind = "file" THEN GrepFile(f, query, ms[i], root_dir)
                    ELSE <<>>])

\* C27: for a query that is a regular expression and a pattern that is not empty,
\* Grep returns one entry per matching line of each readable file found, or the
\* no-match string when there is none; a file that cannot be read or decoded adds
\* no entry and makes no failure
C27_GrepOneEntryPerMatchingLine ==
    [][(/\ last'.op = "Grep"
        /\ ~ReCompileFails(last'.args[1])
        /\ last'.args[2] # "")
       => LET owed == EntriesOwed(fs, last'.args[1], last'.args[2], last'.args[3])
          IN  /\ last'.raised = ""
              /\ last'.value = IF owed # <<>> THEN JoinLines(owed)
                               ELSE <<"No matches found.">>]_vars


\* the assistant entries of a history that list tool calls
CallMessages(h) == {j \in 1..Len(h) : h[j].role = "assistant" /\ h[j].tool_calls # <<>>}

\* a history the backend accepts for tool calling: every tool entry answers, in its
\* place, a call of the assistant message that precedes the run of tool entries it
\* is in, and every call of such a message is answered
WellFormedForTools(h) ==
    /\ \A i \in 1..Len(h) :
          h[i].role = "tool" =>
              \E j \in CallMessages(h) :
                 /\ j < i
                 /\ i - j <= Len(h[j].tool_calls)
                 /\ \A m \in (j + 1)..i : h[m].role = "tool"
                 /\ h[i].tool_call_id = h[j].tool_calls[i - j].id
    /\ \A j \in CallMessages(h) :
          \A k \in 1..Len(h[j].tool_calls) :
             /\ j + k <= Len(h)
             /\ h[j + k].role = "tool"
             /\ h[j + k].tool_call_id = h[j].tool_calls[k].id

\* C28: in the OpenAI engine, whenever a request is issued to the backend the
\* history it carries is well formed for tool calling
C28_HistoryWellFormedAtRequest ==
    [][(engine = "openai" /\ pc # "stream" /\ pc' = "stream")
          => WellFormedForTools(history')]_vars


\* the Gemini engine sends the results of a pass
SendStep == engine = "gemini" /\ pc = "tools" /\ pc' = "yield"

PassEndStep ==
    \/ engine = "gemini" /\ pc = "yield" /\ pc' = "stream"
    \/ engine = "openai" /\ pc = "tools" /\ pc' = "stream"

\* C30: in both engines the ToolOutcome envelopes of a pass are the outcomes of
\* different calls of that pass, each emitted once, and when the pass is over there
\* is one for every call collected; in the Gemini engine _pending_tool_results is
\* empty whenever a stream of the backend is being consumed
C30_OneOutcomePerCall ==
    [][/\ LET out == OutcomeEvents(SinceStreamEnd(events'))
          IN  /\ Len(out) <= Len(ExecEvents(SinceStreamEnd(events')))
              /\ \A i, j \in 1..Len(out) : i # j => out[i].k # out[j].k
              /\ PassEndStep => Len(out) = Len(tool_calls)
       /\ (engine = "gemini" /\ pc' = "stream" /\ current_response' = "open")
             => pending' = <<>>]_vars


(***************************************************************************)
(* Path handling of the two API engines before a tool is dispatched        *)
(* (checked under SpecPaths).                                              *)
(***************************************************************************)
\* the argument mappings tried: file_path absent, relative, absolute or None,
\* root_dir absent or given
FilePathChoices ==
    {<<>>, <<<<"a.txt">>>>, <<OptionsCwd \o <<"a.txt">>>>, <<<<"/", "b.txt">>>>, <<NoneVal>>}

RootDirChoices == {<<>>, <<<<"/", "else">>>>}

ArgsOf(fp, rd) ==
    [k \in (IF fp # <<>> THEN {"file_path"} ELSE {})
              \cup (IF rd # <<>> THEN {"root_dir"} ELSE {}) |->
        IF k = "file_path" THEN fp[1] ELSE rd[1]]

ToolNames == BuiltinTools \cup {"WebFetch"}

\* GeminiAgentEngine._handle_tool_calls: the mapping the branch of the tool is
\* entered with, and for Glob and Grep the mapping after the root_dir default
GeminiToolArgs(name, args0) ==
    LET args == ResolveFilePath(args0)
    IN  IF name \in {"Glob", "Grep"} THEN WithRootDir(args) ELSE args

\* OpenAIAgentEngine._handle_tool_calls: the same steps, written a second time
OpenAIToolArgs(name, args0) ==
    LET args == ResolveFilePath(args0)
    IN  IF name \in {"Glob", "Grep"} THEN WithRootDir(args) ELSE args

InitPaths ==
    /\ EngineIdle
    /\ CliIdle
    /\ PairIdle
    /\ fs = ProjectFiles
    /\ syslog = <<>>
    /\ last = NoCall

GeminiResolveCall ==
    /\ last = NoCall
    /\ \E name \in ToolNames, fp \in FilePathChoices, rd \in RootDirChoices :
          last' = Called("gemini", <<name, ArgsOf(fp, rd)>>,
                         Returned("dict", <<GeminiToolArgs(name, ArgsOf(fp, rd))>>,
                                  fs, <<>>))
    /\ UNCHANGED <<engineVars, fs, syslog, cliVars, pairVars>>

OpenAIResolveCall ==
    /\ last = NoCall
    /\ \E name \in ToolNames, fp \in FilePathChoices, rd \in RootDirChoices :
          last' = Called("openai", <<name, ArgsOf(fp, rd)>>,
                         Returned("dict", <<OpenAIToolArgs(name, ArgsOf(fp, rd))>>,
                                  fs, <<>>))
    /\ UNCHANGED <<engineVars, fs, syslog, cliVars, pairVars>>

NextPaths == GeminiResolveCall \/ OpenAIResolveCall

SpecPaths == InitPaths /\ [][NextPaths]_vars

\* C31: in both engines the tool is entered with a file_path that is the working
\* directory joined with the given one when that is a relative path, and the given
\* one when it is absolute; Glob and Grep called without root_dir are given the
\* working directory; and the two engines resolve every call alike
C31_PathsResolvedAgainstCwd ==
    last.op \in {"gemini", "openai"} =>
        LET name == last.args[1]
            given == last.args[2]
            passed == last.value[1]
        IN  /\ ("file_path" \in DOMAIN given /\ given["file_path"] # NoneVal) =>
                  passed["file_path"] =
                      IF IsAbsolute(given["file_path"]) THEN given["file_path"]
                      ELSE OptionsCwd \o given["file_path"]
            /\ name \in {"Glob", "Grep"} =>
                  passed["root_dir"] =
                      IF "root_dir" \in DOMAIN given THEN given["root_dir"]
                      ELSE OptionsCwd
            /\ GeminiToolArgs(name, given) = OpenAIToolArgs(name, given)

\* the OpenAI engine resolved a Grep call with a relative file_path and no root_dir
C31_Witness ==
    /\ last.op = "openai"
    /\ last.args[1] = "Grep"
    /\ DOMAIN last.args[2] = {"file_path"}
    /\ last.args[2]["file_path"] = <<"a.txt">>
    /\ last.value[1]["file_path"] = OptionsCwd \o <<"a.txt">>
    /\ last.value[1]["root_dir"] = OptionsCwd


(***************************************************************************)
(* Further claims about the turns of the engines.                          *)
(***************************************************************************)
\* C32: receive_response called on an engine that was never given a message issues
\* no request to the backend, executes no tool and leaves the history as it is
\* (checked under Spec for the steps of the generator before the first query)
C32_NoRequestWithoutSubmit ==
    [][(queries = 0 /\ queries' = 0 /\ system_prompt' = system_prompt) =>
          /\ Count(events', "request") = 0
          /\ Count(events', "exec") = 0
          /\ history' = history
          /\ chat_history' = chat_history]_vars


\* the lines of a text written to a pipe
LinesWritten(data) == Cardinality({i \in 1..Len(data) : data[i] = "\n"})

\* C33: once the child of the custom CLI engine is spawned and fed, the prompt has
\* reached it in one way: with a template that holds "stream-json" as one JSON line
\* on its standard input, which is closed, and not as an argument; with any other
\* template as the last argument, nothing being written to standard input
C33_PromptByStdinOrArgument ==
    (engine = "custom_cli" /\ Count(events, "spawn") > 0) =>
        IF Contains(cli_command.template, StreamJson)
        THEN /\ process.stdin_data = InputData(cli_prompt)
             /\ LinesWritten(process.stdin_data) = 1
             /\ process.stdin_data[Len(process.stdin_data)] = "\n"
             /\ process.stdin = "closed"
             /\ process.args = cli_command.args
             /\ \A i \in 1..Len(process.args) : process.args[i] # cli_prompt
        ELSE /\ process.args = Append(cli_command.args, cli_prompt)
             /\ process.stdin_data = <<>>
             /\ process.stdin = "none"

\* a child spawned from a streaming template was given a prompt with a line break
C33_Witness ==
    /\ engine = "custom_cli"
    /\ Count(events, "spawn") > 0
    /\ Contains(cli_command.template, StreamJson)
    /\ cli_prompt = <<"q", "\n">>
    /\ LinesWritten(process.stdin_data) = 1
    /\ process.stdin = "closed"

\* ---------------------------------------------------------------------------
\* CustomCliAgentEngine.receive_response against the child program, with
\* bounded pipes (checked under SpecPipes and SpecPipesFair)
\* ---------------------------------------------------------------------------

\* what one pipe together with the stream buffer in front of it holds, in chunks
PipeCap == 1

\* the longest child program, in steps
MaxOps == 3

\* the longest input_data, in chunks
MaxPrompt == 2

\* a step of the child: read a chunk of its standard input (or see its end),
\* write a line to standard output, write a chunk to standard error
ChildOps == {"in", "out", "err"}

RECURSIVE ProgramsOfLen(_)
ProgramsOfLen(n) ==
    IF n = 0 THEN {<<>>}
    ELSE {<<op>> \o p : op \in ChildOps, p \in ProgramsOfLen(n - 1)}

Programs == UNION {ProgramsOfLen(n) : n \in 0..MaxOps}

\* the state right after create_subprocess_exec returned: stdin is a pipe only
\* for a streaming template, and a child without a stdin pipe is one that does
\* not read its input
InitPipes ==
    /\ EngineIdle
    /\ CliIdle
    /\ genai_config = NoneVal
    /\ instances = <<NoInstance, NoInstance>>
    /\ session_files = <<>>
    /\ claude = [calls |-> <<>>, yielded |-> <<>>, gen |-> "none"]
    /\ sdk_client = [has_set_system_prompt |-> FALSE, calls |-> <<>>,
                     yielded |-> <<>>]
    /\ fs = ProjectFiles
    /\ syslog = <<>>
    /\ last = NoCall
    /\ \E is_streaming \in BOOLEAN, prog \in Programs, rc \in {0, 1},
          n \in 1..MaxPrompt :
          /\ is_streaming \/ \A i \in 1..Len(prog) : prog[i] # "in"
          /\ pipes = [pc |-> IF is_streaming THEN "write" ELSE "readline",
                      is_streaming |-> is_streaming,
                      unsent |-> IF is_streaming THEN n ELSE 0,
                      stdin |-> 0, stdin_closed |-> FALSE, stdout |-> 0,
                      stderr |-> 0, prog |-> prog, child |-> "running",
                      returncode |-> rc]

pipesFrame == <<engineVars, fs, syslog, last, cliVars, genai_config, instances,
                session_files, claude, sdk_client>>

\* process.stdin.write(input_data.encode()): the data is queued, and the call
\* returns at once
StdinWrite ==
    /\ pipes.pc = "write"
    /\ pipes' = [pipes EXCEPT !.pc = "drain"]
    /\ UNCHANGED pipesFrame

\* the transport moves one queued chunk into the pipe when the pipe has room
StdinFlush ==
    /\ pipes.pc = "drain"
    /\ pipes.child = "running"
    /\ pipes.unsent > 0
    /\ pipes.stdin < PipeCap
    /\ pipes' = [pipes EXCEPT !.unsent = @ - 1, !.stdin = @ + 1]
    /\ UNCHANGED pipesFrame

\* await process.stdin.drain() returns once the queue is empty
StdinDrained ==
    /\ pipes.pc = "drain"
    /\ pipes.unsent = 0
    /\ pipes' = [pipes EXCEPT !.pc = "close"]
    /\ UNCHANGED pipesFrame

\* the child is gone and data is still queued: drain() raises, and the except
\* clause yields the error text and ends the generator
StdinDrainRaises ==
    /\ pipes.pc = "drain"
    /\ pipes.unsent > 0
    /\ pipes.child = "exited"
    /\ pipes' = [pipes EXCEPT !.pc = "done"]
    /\ UNCHANGED pipesFrame

\* process.stdin.close()
StdinClose ==
    /\ pipes.pc = "close"
    /\ pipes' = [pipes EXCEPT !.pc = "readline", !.stdin_closed = TRUE]
    /\ UNCHANGED pipesFrame

\* line = await process.stdout.readline(): a buffered line is taken and the
\* loop goes on; the end of the stream leaves the loop; otherwise it waits
StdoutReadline ==
    /\ pipes.pc = "readline"
    /\ \/ /\ pipes.stdout > 0
          /\ pipes' = [pipes EXCEPT !.stdout = @ - 1]
       \/ /\ pipes.stdout = 0
          /\ pipes.child = "exited"
          /\ pipes' = [pipes EXCEPT !.pc = "wait"]
    /\ UNCHANGED pipesFrame

\* await process.wait(), then the test of the return code
ProcessWait ==
    /\ pipes.pc = "wait"
    /\ pipes.child = "exited"
    /\ pipes' = [pipes EXCEPT
                   !.pc = IF pipes.returncode # 0 THEN "stderr" ELSE "done"]
    /\ UNCHANGED pipesFrame

\* stderr_data = await process.stderr.read(), to the end of the stream
StderrRead ==
    /\ pipes.pc = "stderr"
    /\ pipes.child = "exited"
    /\ pipes' = [pipes EXCEPT !.pc = "done", !.stderr = 0]
    /\ UNCHANGED pipesFrame

\* the child reads: a chunk if there is one, the end of input once the engine
\* closed the pipe, and it waits otherwise
ChildReads ==
    /\ pipes.child = "running"
    /\ pipes.prog # <<>>
    /\ Head(pipes.prog) = "in"
    /\ \/ /\ pipes.stdin > 0
          /\ pipes' = [pipes EXCEPT !.stdin = @ - 1, !.prog = Tail(@)]
       \/ /\ pipes.stdin = 0
          /\ pipes.stdin_closed
          /\ pipes' = [pipes EXCEPT !.prog = Tail(@)]
    /\ UNCHANGED pipesFrame

\* the child writes a line to standard output, which blocks on a full pipe
ChildWritesStdout ==
    /\ pipes.child = "running"
    /\ pipes.prog # <<>>
    /\ Head(pipes.prog) = "out"
    /\ pipes.stdout < PipeCap
    /\ pipes' = [pipes EXCEPT !.stdout = @ + 1, !.prog = Tail(@)]
    /\ UNCHANGED pipesFrame

\* the child writes a chunk to standard error, which blocks on a full pipe
ChildWritesStderr ==
    /\ pipes.child = "running"
    /\ pipes.prog # <<>>
    /\ Head(pipes.prog) = "err"
    /\ pipes.stderr < PipeCap
    /\ pipes' = [pipes EXCEPT !.stderr = @ + 1, !.prog = Tail(@)]
    /\ UNCHANGED pipesFrame

\* the child ends, which closes its ends of the pipes
ChildExits ==
    /\ pipes.child = "running"
    /\ pipes.prog = <<>>
    /\ pipes' = [pipes EXCEPT !.child = "exited"]
    /\ UNCHANGED pipesFrame

EngineStep ==
    \/ StdinWrite
    \/ StdinFlush
    \/ StdinDrained
    \/ StdinDrainRaises
    \/ StdinClose
    \/ StdoutReadline
    \/ ProcessWait
    \/ StderrRead

ChildStep ==
    \/ ChildReads
    \/ ChildWritesStdout
    \/ ChildWritesStderr
    \/ ChildExits

NextPipes ==
    \/ StdinWrite
    \/ StdinFlush
    \/ StdinDrained
    \/ StdinDrainRaises
    \/ StdinClose
    \/ StdoutReadline
    \/ ProcessWait
    \/ StderrRead
    \/ ChildReads
    \/ ChildWritesStdout
    \/ ChildWritesStderr
    \/ ChildExits

SpecPipes == InitPipes /\ [][NextPipes]_vars

\* the event loop runs the generator whenever it can go on, and the operating
\* system runs the child whenever it is not blocked
SpecPipesFair == SpecPipes /\ WF_vars(EngineStep) /\ WF_vars(ChildStep)

\* C34: with bounded pipes, every fair interleaving of the engine's steps with
\* the steps of a child that would end if its output were read brings
\* receive_response to its end
C34_ResponseEnds == <>(pipes.pc = "done")

\* ---------------------------------------------------------------------------
\* The dispatch of one tool call under a configured options.allowed_tools
\* (checked under SpecDispatch)
\* ---------------------------------------------------------------------------

\* arguments the backend sends with a call of the tool
CallArgs(name) ==
    CASE name = "Read"  -> [k \in {"file_path"} |-> <<"a.txt">>]
      [] name = "Write" -> [k \in {"file_path", "content"} |->
                              IF k = "file_path" THEN <<"a.txt">> ELSE <<"B">>]
      [] name = "Edit"  -> [k \in {"file_path", "target_content",
                                   "replacement_content"} |->
                              IF k = "file_path" THEN <<"a.txt">>
                              ELSE IF k = "target_content" THEN <<"a">> ELSE <<"B">>]
      [] name = "Glob"  -> [k \in {"pattern"} |-> <<"*">>]
      [] name = "Grep"  -> [k \in {"query"} |-> <<"a">>]
      [] name = "Bash"  -> [k \in {"command"} |-> <<"ls">>]
      [] OTHER          -> EmptyArgs

InitDispatch ==
    /\ EngineIdle
    /\ CliIdle
    /\ PairIdle
    /\ fs = ProjectFiles
    /\ syslog = <<>>
    /\ last = NoCall

\* one pass of the loop of GeminiAgentEngine._handle_tool_calls, in an engine
\* constructed with options.allowed_tools = allowed
GeminiDispatchCall ==
    /\ last = NoCall
    /\ \E allowed \in AllowedToolLists, name \in ToolNames, v \in EngineVerdicts,
          o \in EngineOutcomes :
          LET r == Dispatch("gemini", name, CallArgs(name), fs, v, o)
          IN  /\ last' = Called("gemini", <<allowed, name, v>>, r)
              /\ fs' = r.fs
              /\ syslog' = r.log
    /\ UNCHANGED <<engineVars, cliVars, pairVars>>

\* one pass of the loop of OpenAIAgentEngine._handle_tool_calls, likewise
OpenAIDispatchCall ==
    /\ last = NoCall
    /\ \E allowed \in AllowedToolLists, name \in ToolNames, v \in EngineVerdicts,
          o \in EngineOutcomes :
          LET r == Dispatch("openai", name, CallArgs(name), fs, v, o)
          IN  /\ last' = Called("openai", <<allowed, name, v>>, r)
              /\ fs' = r.fs
              /\ syslog' = r.log
    /\ UNCHANGED <<engineVars, cliVars, pairVars>>

NextDispatch == GeminiDispatchCall \/ OpenAIDispatchCall

SpecDispatch == InitDispatch /\ [][NextDispatch]_vars

\* the result is the dispatcher's own error text, and nothing was run or changed
NotExecuted ==
    /\ last.raised = ""
    /\ last.type = "str"
    /\ last.value[1] = "Error: Tool "
    /\ fs = ProjectFiles
    /\ syslog = <<>>

\* C35: a call that names a built-in tool outside the enabled tools is not
\* executed and gives an error result
C35_OnlyEnabledToolsExecuted ==
    (/\ last.op \in {"gemini", "openai"}
     /\ last.args[2] \in BuiltinTools
     /\ last.args[2] \notin Range(last.args[1])) => NotExecuted

\* ---------------------------------------------------------------------------
\* The engines with a backend that also names a tool no engine knows
\* (checked under SpecUnknown)
\* ---------------------------------------------------------------------------

\* whole tool calls in one fragment each: the unknown tool and Read
UnknownFragments ==
    {[id |-> "w", name |-> "WebFetch", arguments |-> <<"{", "}">>],
     [id |-> "r", name |-> "Read", arguments |-> <<"{", "file_path:a.txt", "}">>]}

UnknownDeltas ==
    {[content |-> <<"hi">>, tool_calls |-> <<>>]}
        \cup {[content |-> <<>>, tool_calls |-> <<TcChunk(i, frag)>>] :
                  i \in Indexes, frag \in UnknownFragments}

UnknownChunks ==
    {[text |-> <<"hi">>, function_calls |-> <<>>],
     [text |-> <<>>, function_calls |-> <<FunctionCall("WebFetch", EmptyArgs)>>],
     [text |-> <<>>,
      function_calls |-> <<FunctionCall("Read", [file_path |-> <<"a.txt">>])>>]}

OpenAIChunkUnknown == OpenAIChunkFrom(UnknownDeltas)

GeminiChunkUnknown == GeminiChunkFrom(UnknownChunks)

NextUnknown ==
    \/ OpenAIQuery
    \/ OpenAISetSystemPrompt
    \/ OpenAIRequest
    \/ OpenAIChunkUnknown
    \/ OpenAIStreamEnd
    \/ OpenAIExec
    \/ GeminiQuery
    \/ GeminiSetSystemPrompt
    \/ GeminiReceiveResponse
    \/ GeminiChunkUnknown
    \/ GeminiStreamEnd
    \/ GeminiExec
    \/ GeminiSendResults
    \/ GeminiYield
    \/ GeminiContinue

SpecUnknown == Init /\ [][NextUnknown]_vars

\* the result of a call of a tool that is not one of the six
IsUnknownToolError(content, name) ==
    /\ Len(content) = 3
    /\ content[1] = "Error: Tool "
    /\ content[2] = name

\* the iteration of _handle_tool_calls for a call whose name is not a built-in tool
UnknownExecStep ==
    /\ pc = "tools"
    /\ idx <= Len(tool_calls)
    /\ NthCall(tool_calls, idx).name \notin BuiltinTools
    /\ Len(events') > Len(events)

\* the Gemini engine yields the stored result of a call of an unknown tool
UnknownYieldStep ==
    /\ engine = "gemini"
    /\ pc = "yield"
    /\ idx <= Len(pending)
    /\ tool_calls[idx].name \notin BuiltinTools
    /\ Len(events') > Len(events)

\* C37: the iteration for a call of an unknown tool runs nothing and changes no
\* file, gives the error text as the call's result (OpenAI: a tool entry in
\* history and an outcome envelope; Gemini: a pending result that is sent with the
\* others and yielded as an outcome envelope), and goes on to the next call of the
\* pass, after the last of which the next request is issued
C37_UnknownToolIsAnErrorResult ==
    [][/\ UnknownExecStep =>
             LET tc == NthCall(tool_calls, idx)
             IN  /\ fs' = fs
                 /\ syslog' = <<>>
                 /\ pc' = "tools"
                 /\ idx' = idx + 1
                 /\ engine = "openai" =>
                       /\ Len(history') = Len(history) + 1
                       /\ history'[Len(history')].role = "tool"
                       /\ IsUnknownToolError(history'[Len(history')].content, tc.name)
                       /\ events'[Len(events')].e = "outcome"
                       /\ events'[Len(events')].id = tc.id
                       /\ IsUnknownToolError(events'[Len(events')].content, tc.name)
                 /\ engine = "gemini" =>
                       /\ Len(pending') = Len(pending) + 1
                       /\ IsUnknownToolError(pending'[Len(pending')].content, tc.name)
       /\ UnknownYieldStep =>
             /\ events'[Len(events')].e = "outcome"
             /\ IsUnknownToolError(events'[Len(events')].content, tool_calls[idx].name)
       /\ (pc = "tools" /\ idx > Len(tool_calls) /\ pc' # pc) =>
             /\ events'[Len(events')].e = "request"
             /\ engine = "gemini" => Len(chat_history'[Len(chat_history')].results)
                                        = Len(tool_calls)
      ]_vars

\* an unknown tool was called first and Read after it in one pass, both results
\* were reported, and the next request was issued
C37_Witness ==
    \E i, j, k \in 1..Len(events) :
        /\ i < j
        /\ events[i].e = "outcome" /\ events[i].name = "WebFetch"
        /\ IsUnknownToolError(events[i].content, "WebFetch")
        /\ events[j].e = "outcome" /\ events[j].name = "Read"
        /\ events[j].content = <<"a", "\n">>
        /\ events[k].e = "request"
        /\ \A n \in i..j : events[n].e # "stream_end"
        /\ IF engine = "openai" THEN k > j ELSE k < i /\ \A n \in k..i : events[n].e # "chunk"

\* ---------------------------------------------------------------------------
\* Further claims about the engines (checked under Spec)
\* ---------------------------------------------------------------------------

\* the envelope a reported outcome stands for: yield UserMessage(id, content)
OutcomeEnvelope(ev) == UserMessage(ev.id, ev.content)

\* the tool's result is one of the error texts
IsFailure(content) == IsError(Returned("str", content, fs, <<>>))

\* C36: the error flag of every tool-outcome envelope is true exactly when the
\* result it carries is a failure
C36_ErrorFlagMatchesResult ==
    \A i \in 1..Len(events) :
        events[i].e = "outcome" =>
            (OutcomeEnvelope(events[i]).is_error <=> IsFailure(events[i].content))

\* ---------------------------------------------------------------------------
\* Further claims about the tools (checked under SpecTools)
\* ---------------------------------------------------------------------------

\* lines a..b of the file, as one text
LinesFromTo(lines, a, b) == Flatten(SubSeq(lines, a, b))

\* the text holds no line with a number outside lo..hi
WithinRange(text, lines, lo, hi) ==
    \E a \in 1..(Len(lines) + 1), b \in 0..Len(lines) :
        /\ text = LinesFromTo(lines, a, b)
        /\ a > b \/ (lo <= a /\ b <= hi)

\* C39: a Read of a readable text file of n lines returns lines s..e for
\* 1 <= s <= e <= n, lines s..n with only s, lines 1..e with only e, the whole file
\* with neither; and with a start of 0 or a negative start or end it returns no
\* line outside the requested range
C39_ReadReturnsRequestedLines ==
    [][(last'.op = "Read" /\ Stat(fs, last'.args[1]).kind = "file") =>
          LET lines == ReadLines(TranslateNewlines(Stat(fs, last'.args[1]).data), <<>>)
              n  == Len(lines)
              s  == last'.args[2]
              e  == last'.args[3]
              lo == IF s = <<>> THEN 1 ELSE s[1]
              hi == IF e = <<>> THEN n ELSE e[1]
          IN  /\ last'.raised = ""
              /\ (1 <= lo /\ lo <= hi /\ hi <= n) =>
                    last'.value = LinesFromTo(lines, lo, hi)
              /\ (s = <<>> /\ e = <<>>) => last'.value = Flatten(lines)
              /\ (lo <= 0 \/ hi < 0) => WithinRange(last'.value, lines, lo, hi)
      ]_vars

\* ---------------------------------------------------------------------------
\* Further claims about CustomCliAgentEngine (checked under SpecCli)
\* ---------------------------------------------------------------------------

\* the spawned child was given the message, on its standard input or as an argument
Delivers(proc, message) ==
    \/ proc.stdin_data = InputData(message)
    \/ proc.args # <<>> /\ proc.args[Len(proc.args)] = message

\* C38: when receive_response has spawned and fed the child, every message
\* submitted since the last turn has been delivered to it
C38_NoSubmittedMessageLost ==
    [][(/\ engine = "custom_cli"
        /\ pc = "cmd"
        /\ Count(events', "spawn") > 0)
       => \A i \in 1..Len(events) :
             events[i].e = "query" => Delivers(process', events[i].content)]_vars

====
